---- MODULE Spec2Model ----
(***************************************************************************)
(* QErase (src/main.py): a model of the erasure engine (EraseThread), of   *)
(* the pattern generator (get_passes / generate_pattern) and of the        *)
(* control side that starts and cancels a batch (MainWindow).              *)
(*                                                                         *)
(* Byte strings are modelled by what the engine can observe of them: a     *)
(* pattern or chunk is a record [kind, byte, len] (a fill byte, or the     *)
(* identity of a random draw, and its length in bytes); a file on disk is  *)
(* its length.  Sizes are real byte counts, so the 1024-byte patterns and  *)
(* the 64 KiB chunk keep their source values.                              *)
(***************************************************************************)
EXTENDS Integers, Sequences, FiniteSets, TLC

Min(a, b) == IF a < b THEN a ELSE b
Max(a, b) == IF a > b THEN a ELSE b

(***************************************************************************)
(* Program constants.                                                      *)
(***************************************************************************)
\* run(): CHUNK_SIZE = 64 * 1024
CHUNK_SIZE == 65536
\* get_passes(): every pattern is built as <byte> * 1024
PATTERN_LEN == 1024

\* MainWindow.standards, in the order of the list (ASCII names for the labels)
standards == << "Single", "DoD3", "DoD7ECE", "VSITR", "Gutmann" >>
Methods == { standards[k] : k \in 1..Len(standards) }

(***************************************************************************)
(* PatternGenerator: get_passes and generate_pattern.                      *)
(***************************************************************************)
Fixed(b) == [kind |-> "fixed", byte |-> b, len |-> PATTERN_LEN]
\* bytes([random.randint(0, 255) for _ in range(1024)]): one draw of 1024
\* bytes, made when the pass list is built; k identifies the draw.
Random(k) == [kind |-> "random", byte |-> k, len |-> PATTERN_LEN]

Rep(n, x) == [k \in 1..n |-> x]

\* the flat list special_patterns of get_passes (15 rows of 8 entries)
special_patterns ==
  << 146,  73,  36, 146,  73,  36, 146,  73,
      73,  36, 146,  73,  36, 146,  73,  36,
      36, 146,  73,  36, 146,  73,  36, 146,
       0,   0,   0,   0,   0,   0,   0,   0,
      17,  17,  17,  17,  17,  17,  17,  17,
      34,  34,  34,  34,  34,  34,  34,  34,
      51,  51,  51,  51,  51,  51,  51,  51,
      68,  68,  68,  68,  68,  68,  68,  68,
      85,  85,  85,  85,  85,  85,  85,  85,
     102, 102, 102, 102, 102, 102, 102, 102,
     119, 119, 119, 119, 119, 119, 119, 119,
     136, 136, 136, 136, 136, 136, 136, 136,
     153, 153, 153, 153, 153, 153, 153, 153,
     170, 170, 170, 170, 170, 170, 170, 170,
     187, 187, 187, 187, 187, 187, 187, 187 >>

\* (variant) the label of the VSITR branch does not match the menu entry, so
\* that standard falls through to the default list
get_passes_vsitr_unmatched(m) ==
  CASE m = "DoD3" ->
         << Fixed(0), Fixed(1), Fixed(0), Fixed(1), Fixed(0), Fixed(1),
            Random(1) >>
    [] m = "DoD7ECE" ->
         << Fixed(0), Fixed(255), Random(1), Fixed(0), Fixed(255),
            Random(2), Fixed(0) >>
    [] m = "Gutmann" ->
         Rep(4, Fixed(0)) \o << Fixed(85) >> \o << Fixed(170) >>
           \o [k \in 1..4 |-> Random(k)]
           \o [k \in 1..Len(special_patterns) |-> Fixed(special_patterns[k])]
           \o [k \in 1..6 |-> Random(4 + k)]
           \o Rep(4, Fixed(0))
    [] OTHER -> << Fixed(0) >>

get_passes(m) ==
  CASE m = "DoD3" ->
         << Fixed(0), Fixed(1), Fixed(0), Fixed(1), Fixed(0), Fixed(1),
            Random(1) >>
    [] m = "DoD7ECE" ->
         << Fixed(0), Fixed(255), Random(1), Fixed(0), Fixed(255),
            Random(2), Fixed(0) >>
    [] m = "Gutmann" ->
         Rep(4, Fixed(0)) \o << Fixed(85) >> \o << Fixed(170) >>
           \o [k \in 1..4 |-> Random(k)]
           \o [k \in 1..Len(special_patterns) |-> Fixed(special_patterns[k])]
           \o [k \in 1..6 |-> Random(4 + k)]
           \o Rep(4, Fixed(0))
    [] m = "VSITR" ->
         << Fixed(0), Fixed(255), Random(1), Fixed(0), Fixed(255),
            Random(2), Fixed(0) >>
    [] OTHER -> << Fixed(0) >>

\* pattern[:size]: the prefix of the pattern, at most size bytes long
generate_pattern(pattern, size) ==
  [pattern EXCEPT !.len = Min(pattern.len, size)]

\* int((processed_size / total_size) * 100), for total_size > 0
Percent(processed, total) == (processed * 100) \div total

(***************************************************************************)
(* The filesystem seen by one batch: a top-level file f and a directory d  *)
(* holding a file d_a and a subdirectory d_s holding a file d_s_b.         *)
(***************************************************************************)
Files == { "f", "d_a", "d_s_b" }
Dirs  == { "d", "d_s" }
Paths == Files \cup Dirs
Parent(p) ==
  CASE p = "d_a" -> "d" [] p = "d_s" -> "d" [] p = "d_s_b" -> "d_s"
    [] OTHER -> "root"
\* p lies beneath directory q (at any depth)
Beneath(p, q) == Parent(p) = q \/ Parent(Parent(p)) = q

\* sizes a selected file may have: empty, one byte, two patterns, just above
\* one chunk
FileSizes == { 0, 1, 2048, 65537 }
\* sizes of the files found under the selected directory
NestedSizes == { 0, 1025 }
\* the path lists a batch may be constructed with (already validated)
Requests == { << >>, << "f" >>, << "d" >>, << "f", "d" >>, << "d", "f" >> }
\* the entries that may exist under d when the batch is constructed
Trees == { {}, { "d_a" }, { "d_s" }, { "d_a", "d_s" }, { "d_s", "d_s_b" },
           { "d_a", "d_s", "d_s_b" } }

\* failures the environment injects into the file phases of one run (a path
\* that stopped validating, a failed open, write or remove, a failed lock
\* resolution)
MaxFaults == 1
\* failures the environment injects into the folder phases of one run
MaxFolderFaults == 2
\* progress events are counted up to this number
MaxProgressEvents == 2
\* EraseThread objects constructed in one session of the window
MaxStarts == 2

VARIABLES
  \* filesystem
  exists,        \* [Paths -> BOOLEAN]: the entry is on disk
  moved,         \* directories that now live under a random temporary name
  fsize,         \* [Files -> Nat]: length of the file on disk
  \* EraseThread fields
  file_paths, method, is_running, current_file_index, last_progress_update,
  total_size, processed_size,
  \* locals of run()
  pc, idx, folders_to_delete, walk, cur, nested, file_size, i, written, fpos,
  pending, folder, renamed,
  \* signals emitted by the worker
  errors,          \* error(str): set of [kind, path]
  finished_emitted,\* finished() was emitted
  progress_last,   \* value of the last progress(int), -1 before the first
  folder_deleted,  \* folder_deleted(str): set of [dir, name]
  queue,           \* error and finished signals not yet delivered to the window
  \* observation of the run (not program state)
  on_disk0,        \* files on disk when the thread was constructed
  destroyed,       \* files removed by the overwrite step after their last pass
  io_failed,       \* files whose open, write or remove failed
  cur_bytes,       \* bytes written to the current file, all passes together
  stop_phase,      \* phase of the worker when stop() was called
  observed,        \* the worker has read the flag as cleared and returned
  chunks_after_stop, opens_after_stop, removes_after_stop,
  lock_checked,    \* files on which lines 253-264 (lock detection) have run
  pass_chunks,     \* the chunks written to the current file in the current pass
  progress_events, \* progress(int) events emitted, up to MaxProgressEvents
  skipped,         \* paths passed over by the validity tests of lines 187, 201
  faults,          \* failures injected into the file phase so far
  folder_faults,   \* failures injected into the folder phase so far
  \* control side (MainWindow)
  selected_files, confirm_erase, current_standard, button_enabled, auto_clear,
  is_closing,
  started,         \* EraseThread objects constructed so far
  superseded,      \* EraseThread objects replaced while still running
  \* pattern generator under test
  p_method, p_passes, p_size, p_chunk,
  \* lock resolution under test (lines 253-264 and the helpers they call)
  lock_pc,       \* position in lines 253-264 and in terminate_process
  holders,       \* what get_processes_using_file will return
  processes,     \* the rest of the list the for loop of line 258 iterates
  proc,          \* the process handed to terminate_process
  proc_nature,   \* [Procs -> Natures]: how the process reacts
  proc_alive,    \* [Procs -> BOOLEAN]: process.is_running()
  proc_signals,  \* [Procs -> SUBSET {"terminate", "kill"}]: requests sent
  returned,      \* [Procs -> {"none", "True", "False"}]: terminate_process
  timed_out      \* processes still running when the 3 s wait ended

vars  == << exists, moved, fsize, file_paths, method, is_running,
            current_file_index, last_progress_update, total_size,
            processed_size, pc, idx, folders_to_delete, walk, cur, nested,
            file_size, i, written, fpos, pending, folder, renamed, errors,
            finished_emitted, progress_last, folder_deleted, queue,
            on_disk0, destroyed, io_failed, cur_bytes, stop_phase, observed,
            chunks_after_stop, opens_after_stop, removes_after_stop,
            lock_checked, pass_chunks, progress_events, skipped, faults,
            folder_faults, selected_files, confirm_erase, current_standard,
            button_enabled, auto_clear, is_closing, started, superseded,
            p_method, p_passes, p_size, p_chunk, lock_pc, holders,
            processes, proc, proc_nature, proc_alive, proc_signals,
            returned, timed_out >>

\* os.path.exists(p) for the path as it was recorded: the entry exists and
\* neither it nor a directory above it has been renamed away
Resolves(p) ==
  /\ exists[p]
  /\ p \notin moved
  /\ \A q \in Dirs : Beneath(p, q) => (exists[q] /\ q \notin moved)

\* the directory has no entry left in it
Empty(q) == \A p \in Paths : Parent(p) = q => ~exists[p]

RECURSIVE SumSizes(_, _)
SumSizes(S, sz) ==
  IF S = {} THEN 0
  ELSE LET p == CHOOSE x \in S : TRUE IN sz[p] + SumSizes(S \ { p }, sz)

Range(s) == { s[k] : k \in 1..Len(s) }

\* the files counted by the sizing loop of run(): the selected files and
\* the files os.walk finds under the selected directories
Sized == { p \in Files : /\ Resolves(p)
                         /\ \/ p \in Range(file_paths)
                            \/ \E q \in Range(file_paths) : Beneath(p, q) }

\* os.walk(file_path, topdown=False): the subdirectory's files, then the
\* directory's own files, then its subdirectories (the dirs list), as
\* listed when the walk starts
WalkOrder == << "d_s_b", "d_a", "d_s" >>
Listed(p, q) == Beneath(p, q) /\ Resolves(p)
WalkList(q) == SelectSeq(WalkOrder, LAMBDA p : Listed(p, q))

passes == get_passes(method)

\* 1 when the cancellation flag is already cleared, for the observation counters
AfterStop == IF is_running THEN 0 ELSE 1

\* where run() is: before the folder loop, in it, or past the test of line 375
Phase ==
  CASE pc \in { "folders", "rmdir", "rename", "move", "rmtree", "cmd",
                "final_check" } -> "folders"
    [] pc = "emit_finished" -> "checked"
    [] OTHER -> "files"

\* the thread object exists and run() has not returned
Running == pc \notin { "idle", "done" }

\* an injected failure of the file phase, within the budget
Fault(ok) ==
  /\ ~ok => faults < MaxFaults
  /\ faults' = IF ok THEN faults ELSE faults + 1
\* an injected failure of the folder phase, within the budget
FolderFault(ok) ==
  /\ ~ok => folder_faults < MaxFolderFaults
  /\ folder_faults' = IF ok THEN folder_faults ELSE folder_faults + 1

(***************************************************************************)
(* EraseThread.stop and EraseThread.run, one action per step of run().     *)
(* The overwrite block of a selected file (lines 266-296) and of a file    *)
(* found under a directory (lines 207-239) are the same code; nested tells *)
(* which of the two loops the worker is in.                                *)
(***************************************************************************)
stop ==
  /\ Running
  /\ is_running
  /\ is_running' = FALSE
  /\ stop_phase' = Phase
  /\ UNCHANGED << exists, moved, fsize, file_paths, method,
                  current_file_index, last_progress_update, total_size,
                  processed_size, pc, idx, folders_to_delete, walk, cur,
                  nested, file_size, i, written, fpos, pending, folder,
                  renamed, errors, finished_emitted, progress_last,
                  folder_deleted, queue, on_disk0, destroyed, io_failed,
                  cur_bytes, observed, chunks_after_stop, opens_after_stop,
                  removes_after_stop, lock_checked, pass_chunks,
                  progress_events, skipped, faults, folder_faults,
                  selected_files, confirm_erase, current_standard,
                  button_enabled, auto_clear, is_closing, started, superseded,
                  p_method, p_passes, p_size, p_chunk, lock_pc, holders,
                  processes, proc, proc_nature, proc_alive, proc_signals,
                  returned, timed_out >>

\* `continue` of the file loop, or the next entry of the walk
GoNext ==
  IF nested THEN pc' = "walk" /\ idx' = idx
  ELSE pc' = "loop" /\ idx' = idx + 1

\* (variant) the failure of one file ends run() instead of the file
FileErrorReturns(kind) ==
  /\ errors' = errors \cup { [kind |-> kind, path |-> cur] }
  /\ queue' = Append(queue, "error")
  /\ pc' = "done"
  /\ idx' = idx

\* except clause of the per-file try: error(...) for the path, then go on
FileError(kind) ==
  /\ errors' = errors \cup { [kind |-> kind, path |-> cur] }
  /\ queue' = Append(queue, "error")
  /\ GoNext

\* (variant) run() does not test for an empty list
RunStartNoTest ==
  /\ pc = "start"
  /\ pc' = "sizing"
  /\ UNCHANGED << errors, queue >>
  /\ UNCHANGED << exists, moved, fsize, file_paths, method, is_running,
                  current_file_index, last_progress_update, total_size,
                  processed_size, idx, folders_to_delete, walk, cur, nested,
                  file_size, i, written, fpos, pending, folder, renamed,
                  finished_emitted, progress_last, folder_deleted, on_disk0,
                  destroyed, io_failed, cur_bytes, stop_phase, observed,
                  chunks_after_stop, opens_after_stop, removes_after_stop,
                  lock_checked, pass_chunks, progress_events, skipped, faults,
                  folder_faults, selected_files, confirm_erase,
                  current_standard, button_enabled, auto_clear, is_closing,
                  started, superseded, p_method, p_passes, p_size, p_chunk,
                  lock_pc, holders, processes, proc, proc_nature, proc_alive,
                  proc_signals, returned, timed_out >>

\* lines 156-159
RunStart ==
  /\ pc = "start"
  /\ IF Len(file_paths) = 0
     THEN /\ errors' = errors \cup { [kind |-> "novalid", path |-> "none"] }
          /\ queue' = Append(queue, "error")
          /\ pc' = "done"
     ELSE /\ pc' = "sizing"
          /\ UNCHANGED << errors, queue >>
  /\ UNCHANGED << exists, moved, fsize, file_paths, method, is_running,
                  current_file_index, last_progress_update, total_size,
                  processed_size, idx, folders_to_delete, walk, cur, nested,
                  file_size, i, written, fpos, pending, folder, renamed,
                  finished_emitted, progress_last, folder_deleted, on_disk0,
                  destroyed, io_failed, cur_bytes, stop_phase, observed,
                  chunks_after_stop, opens_after_stop, removes_after_stop,
                  lock_checked, pass_chunks, progress_events, skipped, faults,
                  folder_faults, selected_files, confirm_erase,
                  current_standard, button_enabled, auto_clear, is_closing,
                  started, superseded, p_method, p_passes, p_size, p_chunk,
                  lock_pc, holders, processes, proc, proc_nature, proc_alive,
                  proc_signals, returned, timed_out >>

\* lines 161-177
Sizing ==
  /\ pc = "sizing"
  /\ total_size' = SumSizes(Sized, fsize)
  /\ processed_size' = 0
  /\ folders_to_delete' = {}
  /\ idx' = 1
  /\ pc' = "loop"
  /\ UNCHANGED << exists, moved, fsize, file_paths, method, is_running,
                  current_file_index, last_progress_update, walk, cur, nested,
                  file_size, i, written, fpos, pending, folder, renamed,
                  errors, finished_emitted, progress_last, folder_deleted,
                  queue, on_disk0, destroyed, io_failed, cur_bytes,
                  stop_phase, observed, chunks_after_stop, opens_after_stop,
                  removes_after_stop, lock_checked, pass_chunks,
                  progress_events, skipped, faults, folder_faults,
                  selected_files, confirm_erase, current_standard,
                  button_enabled, auto_clear, is_closing, started, superseded,
                  p_method, p_passes, p_size, p_chunk, lock_pc, holders,
                  processes, proc, proc_nature, proc_alive, proc_signals,
                  returned, timed_out >>

\* head of the file loop and its cancellation poll (lines 180-184); when the
\* list is exhausted the folder loop starts on the recorded set
LoopPoll ==
  /\ pc = "loop"
  /\ IF idx > Len(file_paths)
     THEN /\ pc' = "folders"
          /\ pending' = folders_to_delete
          /\ UNCHANGED << errors, queue, observed >>
     ELSE IF ~is_running
     THEN /\ errors' = errors \cup { [kind |-> "cancelled", path |-> "none"] }
          /\ queue' = Append(queue, "error")
          /\ observed' = TRUE
          /\ pc' = "done"
          /\ UNCHANGED pending
     ELSE /\ pc' = "validate"
          /\ UNCHANGED << errors, queue, observed, pending >>
  /\ UNCHANGED << exists, moved, fsize, file_paths, method, is_running,
                  current_file_index, last_progress_update, total_size,
                  processed_size, idx, folders_to_delete, walk, cur, nested,
                  file_size, i, written, fpos, folder, renamed,
                  finished_emitted, progress_last, folder_deleted, on_disk0,
                  destroyed, io_failed, cur_bytes, stop_phase,
                  chunks_after_stop, opens_after_stop, removes_after_stop,
                  lock_checked, pass_chunks, progress_events, skipped, faults,
                  folder_faults, selected_files, confirm_erase,
                  current_standard, button_enabled, auto_clear, is_closing,
                  started, superseded, p_method, p_passes, p_size, p_chunk,
                  lock_pc, holders, processes, proc, proc_nature, proc_alive,
                  proc_signals, returned, timed_out >>

\* lines 186-197: revalidate the path; a directory is recorded and walked
Validate ==
  /\ pc = "validate"
  /\ current_file_index' = idx - 1
  /\ LET path == file_paths[idx] IN
     \E ok \in BOOLEAN :
       /\ ok => Resolves(path)
       /\ Fault(ok \/ ~Resolves(path))
       /\ IF ~ok
          THEN /\ pc' = "loop"
               /\ idx' = idx + 1
               /\ skipped' = skipped \cup { path }
               /\ UNCHANGED << folders_to_delete, walk, cur, nested >>
          ELSE IF path \in Dirs
          THEN /\ folders_to_delete' = folders_to_delete \cup { path }
               /\ walk' = WalkList(path)
               /\ nested' = TRUE
               /\ pc' = "walk"
               /\ UNCHANGED << idx, cur, skipped >>
          ELSE /\ cur' = path
               /\ nested' = FALSE
               /\ pc' = "lock"
               /\ UNCHANGED << idx, folders_to_delete, walk, skipped >>
  /\ UNCHANGED << exists, moved, fsize, file_paths, method, is_running,
                  last_progress_update, total_size, processed_size, file_size,
                  i, written, fpos, pending, folder, renamed, errors,
                  finished_emitted, progress_last, folder_deleted, queue,
                  on_disk0, destroyed, io_failed, cur_bytes, stop_phase,
                  observed, chunks_after_stop, opens_after_stop,
                  removes_after_stop, lock_checked, pass_chunks,
                  progress_events, folder_faults, selected_files,
                  confirm_erase, current_standard, button_enabled, auto_clear,
                  is_closing, started, superseded, p_method, p_passes, p_size,
                  p_chunk, lock_pc, holders, processes, proc, proc_nature,
                  proc_alive, proc_signals, returned, timed_out >>

\* lines 197-202 and 241-247: the next entry of the bottom-up walk
WalkNext ==
  /\ pc = "walk"
  /\ IF walk = << >>
     THEN /\ pc' = "loop"
          /\ idx' = idx + 1
          /\ UNCHANGED << walk, folders_to_delete, cur, faults, skipped >>
     ELSE LET p == Head(walk) IN
          /\ walk' = Tail(walk)
          /\ idx' = idx
          /\ IF p \in Dirs
             THEN /\ folders_to_delete' =
                       IF Resolves(p) THEN folders_to_delete \cup { p }
                       ELSE folders_to_delete
                  /\ pc' = "walk"
                  /\ UNCHANGED << cur, faults, skipped >>
             ELSE \E ok \in BOOLEAN :
                    /\ ok => Resolves(p)
                    /\ Fault(ok \/ ~Resolves(p))
                    /\ IF ok
                       THEN cur' = p /\ pc' = "try" /\ UNCHANGED skipped
                       ELSE /\ pc' = "walk"
                            /\ skipped' = skipped \cup { p }
                            /\ UNCHANGED cur
                    /\ UNCHANGED folders_to_delete
  /\ UNCHANGED << exists, moved, fsize, file_paths, method, is_running,
                  current_file_index, last_progress_update, total_size,
                  processed_size, nested, file_size, i, written, fpos,
                  pending, folder, renamed, errors, finished_emitted,
                  progress_last, folder_deleted, queue, on_disk0, destroyed,
                  io_failed, cur_bytes, stop_phase, observed,
                  chunks_after_stop, opens_after_stop, removes_after_stop,
                  lock_checked, pass_chunks, progress_events, folder_faults,
                  selected_files, confirm_erase, current_standard,
                  button_enabled, auto_clear, is_closing, started, superseded,
                  p_method, p_passes, p_size, p_chunk, lock_pc, holders,
                  processes, proc, proc_nature, proc_alive, proc_signals,
                  returned, timed_out >>

\* lines 253-264: is_file_in_use, get_processes_using_file, terminate_process;
\* proc.name() in the log call can raise for a process that is gone, which
\* only the outer handler of run() (lines 377-380) catches
LockResolve ==
  /\ pc = "lock"
  /\ lock_checked' = lock_checked \cup { cur }
  /\ \E out \in { "free", "resolved", "raised" } :
       /\ Fault(out # "raised")
       /\ IF out = "raised"
          THEN /\ errors' = errors \cup { [kind |-> "fatal", path |-> cur] }
               /\ queue' = Append(queue, "error")
               /\ pc' = "done"
          ELSE /\ pc' = "try"
               /\ UNCHANGED << errors, queue >>
  /\ UNCHANGED << exists, moved, fsize, file_paths, method, is_running,
                  current_file_index, last_progress_update, total_size,
                  processed_size, idx, folders_to_delete, walk, cur, nested,
                  file_size, i, written, fpos, pending, folder, renamed,
                  finished_emitted, progress_last, folder_deleted, on_disk0,
                  destroyed, io_failed, cur_bytes, stop_phase, observed,
                  chunks_after_stop, opens_after_stop, removes_after_stop,
                  pass_chunks, progress_events, skipped, folder_faults,
                  selected_files, confirm_erase, current_standard,
                  button_enabled, auto_clear, is_closing, started, superseded,
                  p_method, p_passes, p_size, p_chunk, lock_pc, holders,
                  processes, proc, proc_nature, proc_alive, proc_signals,
                  returned, timed_out >>

\* (variant) the size of the file is added to the total when its turn comes
TryFileAddsToTotal ==
  /\ pc = "try"
  /\ IF Resolves(cur)
     THEN /\ file_size' = fsize[cur]
          /\ total_size' = total_size + fsize[cur]
          /\ i' = 0
          /\ cur_bytes' = 0
          /\ pc' = "pass_poll"
          /\ UNCHANGED << errors, queue, idx >>
     ELSE /\ FileError("process")
          /\ UNCHANGED << file_size, total_size, i, cur_bytes >>
  /\ UNCHANGED << exists, moved, fsize, file_paths, method, is_running,
                  current_file_index, last_progress_update, processed_size,
                  folders_to_delete, walk, cur, nested, written, fpos,
                  pending, folder, renamed, finished_emitted, progress_last,
                  folder_deleted, on_disk0, destroyed, io_failed, stop_phase,
                  observed, chunks_after_stop, opens_after_stop,
                  removes_after_stop, lock_checked, pass_chunks,
                  progress_events, skipped, faults, folder_faults,
                  selected_files, confirm_erase, current_standard,
                  button_enabled, auto_clear, is_closing, started, superseded,
                  p_method, p_passes, p_size, p_chunk, lock_pc, holders,
                  processes, proc, proc_nature, proc_alive, proc_signals,
                  returned, timed_out >>

\* lines 267-268: file_size = os.path.getsize(...), passes = get_passes()
TryFile ==
  /\ pc = "try"
  /\ IF Resolves(cur)
     THEN /\ file_size' = fsize[cur]
          /\ i' = 0
          /\ cur_bytes' = 0
          /\ pc' = "pass_poll"
          /\ UNCHANGED << errors, queue, idx >>
     ELSE /\ FileError("process")
          /\ UNCHANGED << file_size, i, cur_bytes >>
  /\ UNCHANGED << exists, moved, fsize, file_paths, method, is_running,
                  current_file_index, last_progress_update, total_size,
                  processed_size, folders_to_delete, walk, cur, nested,
                  written, fpos, pending, folder, renamed, finished_emitted,
                  progress_last, folder_deleted, on_disk0, destroyed,
                  io_failed, stop_phase, observed, chunks_after_stop,
                  opens_after_stop, removes_after_stop, lock_checked,
                  pass_chunks, progress_events, skipped, faults,
                  folder_faults, selected_files, confirm_erase,
                  current_standard, button_enabled, auto_clear, is_closing,
                  started, superseded, p_method, p_passes, p_size, p_chunk,
                  lock_pc, holders, processes, proc, proc_nature, proc_alive,
                  proc_signals, returned, timed_out >>

\* (variant) the poll of the pass loop waits for the flag to come back instead
\* of returning
PassPollWaits ==
  /\ pc = "pass_poll"
  /\ IF i >= Len(passes)
     THEN pc' = "remove" /\ UNCHANGED << written, observed >>
     ELSE IF ~is_running
     THEN UNCHANGED << pc, written, observed >>
     ELSE pc' = "open" /\ written' = 0 /\ UNCHANGED observed
  /\ UNCHANGED << exists, moved, fsize, file_paths, method, is_running,
                  current_file_index, last_progress_update, total_size,
                  processed_size, idx, folders_to_delete, walk, cur, nested,
                  file_size, i, fpos, pending, folder, renamed, errors,
                  finished_emitted, progress_last, folder_deleted, queue,
                  on_disk0, destroyed, io_failed, cur_bytes, stop_phase,
                  chunks_after_stop, opens_after_stop, removes_after_stop,
                  lock_checked, pass_chunks, progress_events, skipped, faults,
                  folder_faults, selected_files, confirm_erase,
                  current_standard, button_enabled, auto_clear, is_closing,
                  started, superseded, p_method, p_passes, p_size, p_chunk,
                  lock_pc, holders, processes, proc, proc_nature, proc_alive,
                  proc_signals, returned, timed_out >>

\* lines 269-272: next pass of the for loop and its cancellation poll
PassPoll ==
  /\ pc = "pass_poll"
  /\ IF i >= Len(passes)
     THEN pc' = "remove" /\ UNCHANGED << written, observed >>
     ELSE IF ~is_running
     THEN pc' = "done" /\ observed' = TRUE /\ UNCHANGED written
     ELSE pc' = "open" /\ written' = 0 /\ UNCHANGED observed
  /\ UNCHANGED << exists, moved, fsize, file_paths, method, is_running,
                  current_file_index, last_progress_update, total_size,
                  processed_size, idx, folders_to_delete, walk, cur, nested,
                  file_size, i, fpos, pending, folder, renamed, errors,
                  finished_emitted, progress_last, folder_deleted, queue,
                  on_disk0, destroyed, io_failed, cur_bytes, stop_phase,
                  chunks_after_stop, opens_after_stop, removes_after_stop,
                  lock_checked, pass_chunks, progress_events, skipped, faults,
                  folder_faults, selected_files, confirm_erase,
                  current_standard, button_enabled, auto_clear, is_closing,
                  started, superseded, p_method, p_passes, p_size, p_chunk,
                  lock_pc, holders, processes, proc, proc_nature, proc_alive,
                  proc_signals, returned, timed_out >>

\* line 273: open(file_path, 'r+b' if i > 0 else 'wb')
OpenFile ==
  /\ pc = "open"
  /\ \E ok \in BOOLEAN :
       /\ Fault(ok)
       /\ IF ok
          THEN /\ fsize' = IF i = 0 THEN [fsize EXCEPT ![cur] = 0] ELSE fsize
               /\ fpos' = 0
               /\ pc' = "chunk_poll"
               /\ opens_after_stop' = opens_after_stop + AfterStop
               /\ pass_chunks' = << >>
               /\ UNCHANGED << errors, queue, idx, io_failed >>
          ELSE /\ FileError("process")
               /\ io_failed' = io_failed \cup { cur }
               /\ UNCHANGED << fsize, fpos, opens_after_stop, pass_chunks >>
  /\ UNCHANGED << exists, moved, file_paths, method, is_running,
                  current_file_index, last_progress_update, total_size,
                  processed_size, folders_to_delete, walk, cur, nested,
                  file_size, i, written, pending, folder, renamed,
                  finished_emitted, progress_last, folder_deleted, on_disk0,
                  destroyed, cur_bytes, stop_phase, observed,
                  chunks_after_stop, removes_after_stop, lock_checked,
                  progress_events, skipped, folder_faults, selected_files,
                  confirm_erase, current_standard, button_enabled, auto_clear,
                  is_closing, started, superseded, p_method, p_passes, p_size,
                  p_chunk, lock_pc, holders, processes, proc, proc_nature,
                  proc_alive, proc_signals, returned, timed_out >>

\* (variant) the while loop does not poll the flag
ChunkPollNoPoll ==
  /\ pc = "chunk_poll"
  /\ pc' = IF written >= file_size THEN "pass_end" ELSE "write"
  /\ UNCHANGED observed
  /\ UNCHANGED << exists, moved, fsize, file_paths, method, is_running,
                  current_file_index, last_progress_update, total_size,
                  processed_size, idx, folders_to_delete, walk, cur, nested,
                  file_size, i, written, fpos, pending, folder, renamed,
                  errors, finished_emitted, progress_last, folder_deleted,
                  queue, on_disk0, destroyed, io_failed, cur_bytes,
                  stop_phase, chunks_after_stop, opens_after_stop,
                  removes_after_stop, lock_checked, pass_chunks,
                  progress_events, skipped, faults, folder_faults,
                  selected_files, confirm_erase, current_standard,
                  button_enabled, auto_clear, is_closing, started, superseded,
                  p_method, p_passes, p_size, p_chunk, lock_pc, holders,
                  processes, proc, proc_nature, proc_alive, proc_signals,
                  returned, timed_out >>

\* lines 274-276: head of the while loop and its cancellation poll
ChunkPoll ==
  /\ pc = "chunk_poll"
  /\ IF written >= file_size
     THEN pc' = "pass_end" /\ UNCHANGED observed
     ELSE IF ~is_running
     THEN pc' = "done" /\ observed' = TRUE
     ELSE pc' = "write" /\ UNCHANGED observed
  /\ UNCHANGED << exists, moved, fsize, file_paths, method, is_running,
                  current_file_index, last_progress_update, total_size,
                  processed_size, idx, folders_to_delete, walk, cur, nested,
                  file_size, i, written, fpos, pending, folder, renamed,
                  errors, finished_emitted, progress_last, folder_deleted,
                  queue, on_disk0, destroyed, io_failed, cur_bytes,
                  stop_phase, chunks_after_stop, opens_after_stop,
                  removes_after_stop, lock_checked, pass_chunks,
                  progress_events, skipped, faults, folder_faults,
                  selected_files, confirm_erase, current_standard,
                  button_enabled, auto_clear, is_closing, started, superseded,
                  p_method, p_passes, p_size, p_chunk, lock_pc, holders,
                  processes, proc, proc_nature, proc_alive, proc_signals,
                  returned, timed_out >>

\* should_update_progress(current_time): the timestamp starts at 0, so the
\* first call always updates; later calls update when 0.5 s have elapsed
should_update_progress(elapsed) == last_progress_update = 0 \/ elapsed

\* lines 277-285: build the chunk, write it, account for it, report progress
\* (the division raises when total_size is 0)
WriteChunk ==
  /\ pc = "write"
  /\ LET chunk_size == Min(CHUNK_SIZE, file_size - written)
         chunk == generate_pattern(passes[i + 1], chunk_size)
     IN \E ok \in BOOLEAN, elapsed \in BOOLEAN :
       /\ Fault(ok)
       /\ IF ~ok
          THEN /\ FileError("process")
               /\ io_failed' = io_failed \cup { cur }
               /\ UNCHANGED << fsize, fpos, cur_bytes, written,
                               processed_size, last_progress_update,
                               progress_last, chunks_after_stop,
                               pass_chunks, progress_events >>
          ELSE /\ fsize' = [fsize EXCEPT ![cur] = Max(@, fpos + chunk.len)]
               /\ fpos' = fpos + chunk.len
               /\ cur_bytes' = cur_bytes + chunk.len
               /\ written' = written + chunk_size
               /\ processed_size' = processed_size + chunk_size
               /\ chunks_after_stop' = chunks_after_stop + AfterStop
               /\ pass_chunks' = Append(pass_chunks, chunk)
               /\ UNCHANGED io_failed
               /\ IF should_update_progress(elapsed)
                  THEN /\ last_progress_update' = 1
                       /\ IF total_size = 0
                          THEN /\ FileError("process")
                               /\ UNCHANGED << progress_last,
                                               progress_events >>
                          ELSE /\ progress_last' =
                                    Percent(processed_size', total_size)
                               /\ progress_events' =
                                    Min(progress_events + 1, MaxProgressEvents)
                               /\ pc' = "chunk_poll"
                               /\ UNCHANGED << errors, queue, idx >>
                  ELSE /\ pc' = "chunk_poll"
                       /\ UNCHANGED << last_progress_update, progress_last,
                                       progress_events, errors, queue, idx >>
  /\ UNCHANGED << exists, moved, file_paths, method, is_running,
                  current_file_index, total_size, folders_to_delete, walk,
                  cur, nested, file_size, i, pending, folder, renamed,
                  finished_emitted, folder_deleted, on_disk0, destroyed,
                  stop_phase, observed, opens_after_stop, removes_after_stop,
                  lock_checked, skipped, folder_faults, selected_files,
                  confirm_erase, current_standard, button_enabled, auto_clear,
                  is_closing, started, superseded, p_method, p_passes, p_size,
                  p_chunk, lock_pc, holders, processes, proc, proc_nature,
                  proc_alive, proc_signals, returned, timed_out >>

\* (variant) the progress after a pass is computed from the bytes of the
\* current pass instead of the cumulative counter
PassEndOfPass ==
  /\ pc = "pass_end"
  /\ IF total_size = 0
     THEN /\ FileError("process")
          /\ UNCHANGED << progress_last, progress_events, i >>
     ELSE /\ progress_last' = Percent(written, total_size)
          /\ progress_events' = Min(progress_events + 1, MaxProgressEvents)
          /\ i' = i + 1
          /\ pc' = "pass_poll"
          /\ UNCHANGED << errors, queue, idx >>
  /\ UNCHANGED << exists, moved, fsize, file_paths, method, is_running,
                  current_file_index, last_progress_update, total_size,
                  processed_size, folders_to_delete, walk, cur, nested,
                  file_size, written, fpos, pending, folder, renamed,
                  finished_emitted, folder_deleted, on_disk0, destroyed,
                  io_failed, cur_bytes, stop_phase, observed,
                  chunks_after_stop, opens_after_stop, removes_after_stop,
                  lock_checked, pass_chunks, skipped, faults, folder_faults,
                  selected_files, confirm_erase, current_standard,
                  button_enabled, auto_clear, is_closing, started, superseded,
                  p_method, p_passes, p_size, p_chunk, lock_pc, holders,
                  processes, proc, proc_nature, proc_alive, proc_signals,
                  returned, timed_out >>

\* lines 286-287: the file is closed and the progress reported after a pass
PassEnd ==
  /\ pc = "pass_end"
  /\ IF total_size = 0
     THEN /\ FileError("process")
          /\ UNCHANGED << progress_last, progress_events, i >>
     ELSE /\ progress_last' = Percent(processed_size, total_size)
          /\ progress_events' = Min(progress_events + 1, MaxProgressEvents)
          /\ i' = i + 1
          /\ pc' = "pass_poll"
          /\ UNCHANGED << errors, queue, idx >>
  /\ UNCHANGED << exists, moved, fsize, file_paths, method, is_running,
                  current_file_index, last_progress_update, total_size,
                  processed_size, folders_to_delete, walk, cur, nested,
                  file_size, written, fpos, pending, folder, renamed,
                  finished_emitted, folder_deleted, on_disk0, destroyed,
                  io_failed, cur_bytes, stop_phase, observed,
                  chunks_after_stop, opens_after_stop, removes_after_stop,
                  lock_checked, pass_chunks, skipped, faults, folder_faults,
                  selected_files, confirm_erase, current_standard,
                  button_enabled, auto_clear, is_closing, started, superseded,
                  p_method, p_passes, p_size, p_chunk, lock_pc, holders,
                  processes, proc, proc_nature, proc_alive, proc_signals,
                  returned, timed_out >>

\* lines 288-293: os.remove(file_path) after the last pass
RemoveFile ==
  /\ pc = "remove"
  /\ \E ok \in BOOLEAN :
       /\ Fault(ok)
       /\ IF ok
          THEN /\ exists' = [exists EXCEPT ![cur] = FALSE]
               /\ destroyed' = destroyed \cup { cur }
               /\ removes_after_stop' = removes_after_stop + AfterStop
               /\ UNCHANGED << errors, queue, io_failed >>
          ELSE /\ errors' = errors \cup { [kind |-> "delete", path |-> cur] }
               /\ queue' = Append(queue, "error")
               /\ io_failed' = io_failed \cup { cur }
               /\ UNCHANGED << exists, destroyed, removes_after_stop >>
  /\ GoNext
  /\ UNCHANGED << moved, fsize, file_paths, method, is_running,
                  current_file_index, last_progress_update, total_size,
                  processed_size, folders_to_delete, walk, cur, nested,
                  file_size, i, written, fpos, pending, folder, renamed,
                  finished_emitted, progress_last, folder_deleted, on_disk0,
                  cur_bytes, stop_phase, observed, chunks_after_stop,
                  opens_after_stop, lock_checked, pass_chunks,
                  progress_events, skipped, folder_faults, selected_files,
                  confirm_erase, current_standard, button_enabled, auto_clear,
                  is_closing, started, superseded, p_method, p_passes, p_size,
                  p_chunk, lock_pc, holders, processes, proc, proc_nature,
                  proc_alive, proc_signals, returned, timed_out >>

\* everything beneath q, and q itself, is removed from disk
RemoveTree(q) == [p \in Paths |-> IF p = q \/ Beneath(p, q) THEN FALSE
                                  ELSE exists[p]]

\* lines 300-306: next folder of the set (any order); one that no longer
\* resolves is passed over
FolderNext ==
  /\ pc = "folders"
  /\ IF pending = {}
     THEN pc' = "final_check" /\ UNCHANGED << pending, folder, renamed >>
     ELSE \E fo \in pending :
            /\ pending' = pending \ { fo }
            /\ folder' = fo
            /\ renamed' = FALSE
            /\ pc' = IF Resolves(fo) THEN "rmdir" ELSE "folders"
  /\ UNCHANGED << exists, moved, fsize, file_paths, method, is_running,
                  current_file_index, last_progress_update, total_size,
                  processed_size, idx, folders_to_delete, walk, cur, nested,
                  file_size, i, written, fpos, errors, finished_emitted,
                  progress_last, folder_deleted, queue, on_disk0, destroyed,
                  io_failed, cur_bytes, stop_phase, observed,
                  chunks_after_stop, opens_after_stop, removes_after_stop,
                  lock_checked, pass_chunks, progress_events, skipped, faults,
                  folder_faults, selected_files, confirm_erase,
                  current_standard, button_enabled, auto_clear, is_closing,
                  started, superseded, p_method, p_passes, p_size, p_chunk,
                  lock_pc, holders, processes, proc, proc_nature, proc_alive,
                  proc_signals, returned, timed_out >>

\* (variant) the plain removal does not emit folder_deleted
RmdirSilent ==
  /\ pc = "rmdir"
  /\ \E ok \in BOOLEAN :
       /\ ok => Empty(folder)
       /\ FolderFault(ok \/ ~Empty(folder))
       /\ IF ok
          THEN /\ exists' = [exists EXCEPT ![folder] = FALSE]
               /\ pc' = "folders"
          ELSE /\ pc' = "rename"
               /\ UNCHANGED exists
  /\ UNCHANGED folder_deleted
  /\ UNCHANGED << moved, fsize, file_paths, method, is_running,
                  current_file_index, last_progress_update, total_size,
                  processed_size, idx, folders_to_delete, walk, cur, nested,
                  file_size, i, written, fpos, pending, folder, renamed,
                  errors, finished_emitted, progress_last, queue, on_disk0,
                  destroyed, io_failed, cur_bytes, stop_phase, observed,
                  chunks_after_stop, opens_after_stop, removes_after_stop,
                  lock_checked, pass_chunks, progress_events, skipped, faults,
                  selected_files, confirm_erase, current_standard,
                  button_enabled, auto_clear, is_closing, started, superseded,
                  p_method, p_passes, p_size, p_chunk, lock_pc, holders,
                  processes, proc, proc_nature, proc_alive, proc_signals,
                  returned, timed_out >>

\* lines 309-317: os.rmdir(folder); it can only succeed on an empty directory
Rmdir ==
  /\ pc = "rmdir"
  /\ \E ok \in BOOLEAN :
       /\ ok => Empty(folder)
       /\ FolderFault(ok \/ ~Empty(folder))
       /\ IF ok
          THEN /\ exists' = [exists EXCEPT ![folder] = FALSE]
               /\ folder_deleted' =
                    folder_deleted \cup { [dir |-> folder, name |-> "orig"] }
               /\ pc' = "folders"
          ELSE /\ pc' = "rename"
               /\ UNCHANGED << exists, folder_deleted >>
  /\ UNCHANGED << moved, fsize, file_paths, method, is_running,
                  current_file_index, last_progress_update, total_size,
                  processed_size, idx, folders_to_delete, walk, cur, nested,
                  file_size, i, written, fpos, pending, folder, renamed,
                  errors, finished_emitted, progress_last, queue, on_disk0,
                  destroyed, io_failed, cur_bytes, stop_phase, observed,
                  chunks_after_stop, opens_after_stop, removes_after_stop,
                  lock_checked, pass_chunks, progress_events, skipped, faults,
                  selected_files, confirm_erase, current_standard,
                  button_enabled, auto_clear, is_closing, started, superseded,
                  p_method, p_passes, p_size, p_chunk, lock_pc, holders,
                  processes, proc, proc_nature, proc_alive, proc_signals,
                  returned, timed_out >>

\* lines 319-332: os.rename(folder, temp_folder) to a random 8-character name
Rename ==
  /\ pc = "rename"
  /\ \E ok \in BOOLEAN :
       /\ FolderFault(ok)
       /\ IF ok
          THEN /\ moved' = moved \cup { folder }
               /\ renamed' = TRUE
               /\ pc' = "rmtree"
          ELSE /\ pc' = "move"
               /\ UNCHANGED << moved, renamed >>
  /\ UNCHANGED << exists, fsize, file_paths, method, is_running,
                  current_file_index, last_progress_update, total_size,
                  processed_size, idx, folders_to_delete, walk, cur, nested,
                  file_size, i, written, fpos, pending, folder, errors,
                  finished_emitted, progress_last, folder_deleted, queue,
                  on_disk0, destroyed, io_failed, cur_bytes, stop_phase,
                  observed, chunks_after_stop, opens_after_stop,
                  removes_after_stop, lock_checked, pass_chunks,
                  progress_events, skipped, faults, selected_files,
                  confirm_erase, current_standard, button_enabled, auto_clear,
                  is_closing, started, superseded, p_method, p_passes, p_size,
                  p_chunk, lock_pc, holders, processes, proc, proc_nature,
                  proc_alive, proc_signals, returned, timed_out >>

\* lines 333-341: shutil.move(folder, temp_folder) when the rename failed;
\* when it fails too, renamed stays False and the loop goes to the next folder
Move ==
  /\ pc = "move"
  /\ \E ok \in BOOLEAN :
       /\ FolderFault(ok)
       /\ IF ok
          THEN /\ moved' = moved \cup { folder }
               /\ renamed' = TRUE
               /\ pc' = "rmtree"
          ELSE /\ pc' = "folders"
               /\ UNCHANGED << moved, renamed >>
  /\ UNCHANGED << exists, fsize, file_paths, method, is_running,
                  current_file_index, last_progress_update, total_size,
                  processed_size, idx, folders_to_delete, walk, cur, nested,
                  file_size, i, written, fpos, pending, folder, errors,
                  finished_emitted, progress_last, folder_deleted, queue,
                  on_disk0, destroyed, io_failed, cur_bytes, stop_phase,
                  observed, chunks_after_stop, opens_after_stop,
                  removes_after_stop, lock_checked, pass_chunks,
                  progress_events, skipped, faults, selected_files,
                  confirm_erase, current_standard, button_enabled, auto_clear,
                  is_closing, started, superseded, p_method, p_passes, p_size,
                  p_chunk, lock_pc, holders, processes, proc, proc_nature,
                  proc_alive, proc_signals, returned, timed_out >>

\* lines 343-351: shutil.rmtree(folder, ignore_errors=True) on the renamed tree
Rmtree ==
  /\ pc = "rmtree"
  /\ \E gone \in BOOLEAN :
       /\ FolderFault(gone)
       /\ IF gone
          THEN /\ exists' = RemoveTree(folder)
               /\ folder_deleted' =
                    folder_deleted \cup { [dir |-> folder, name |-> "temp"] }
               /\ pc' = "folders"
          ELSE /\ pc' = "cmd"
               /\ UNCHANGED << exists, folder_deleted >>
  /\ UNCHANGED << moved, fsize, file_paths, method, is_running,
                  current_file_index, last_progress_update, total_size,
                  processed_size, idx, folders_to_delete, walk, cur, nested,
                  file_size, i, written, fpos, pending, folder, renamed,
                  errors, finished_emitted, progress_last, queue, on_disk0,
                  destroyed, io_failed, cur_bytes, stop_phase, observed,
                  chunks_after_stop, opens_after_stop, removes_after_stop,
                  lock_checked, pass_chunks, progress_events, skipped, faults,
                  selected_files, confirm_erase, current_standard,
                  button_enabled, auto_clear, is_closing, started, superseded,
                  p_method, p_passes, p_size, p_chunk, lock_pc, holders,
                  processes, proc, proc_nature, proc_alive, proc_signals,
                  returned, timed_out >>

\* lines 353-370: rmdir /s /q or rm -rf on the renamed tree
PlatformCmd ==
  /\ pc = "cmd"
  /\ \E gone \in BOOLEAN :
       /\ FolderFault(gone)
       /\ IF gone
          THEN /\ exists' = RemoveTree(folder)
               /\ folder_deleted' =
                    folder_deleted \cup { [dir |-> folder, name |-> "temp"] }
               /\ UNCHANGED << errors, queue >>
          ELSE /\ errors' = errors \cup { [kind |-> "folder", path |-> folder] }
               /\ queue' = Append(queue, "error")
               /\ UNCHANGED << exists, folder_deleted >>
  /\ pc' = "folders"
  /\ UNCHANGED << moved, fsize, file_paths, method, is_running,
                  current_file_index, last_progress_update, total_size,
                  processed_size, idx, folders_to_delete, walk, cur, nested,
                  file_size, i, written, fpos, pending, folder, renamed,
                  finished_emitted, progress_last, on_disk0, destroyed,
                  io_failed, cur_bytes, stop_phase, observed,
                  chunks_after_stop, opens_after_stop, removes_after_stop,
                  lock_checked, pass_chunks, progress_events, skipped, faults,
                  selected_files, confirm_erase, current_standard,
                  button_enabled, auto_clear, is_closing, started, superseded,
                  p_method, p_passes, p_size, p_chunk, lock_pc, holders,
                  processes, proc, proc_nature, proc_alive, proc_signals,
                  returned, timed_out >>

\* (variant) finished() is emitted without testing the flag
FinalCheckNoTest ==
  /\ pc = "final_check"
  /\ pc' = "emit_finished"
  /\ UNCHANGED observed
  /\ UNCHANGED << exists, moved, fsize, file_paths, method, is_running,
                  current_file_index, last_progress_update, total_size,
                  processed_size, idx, folders_to_delete, walk, cur, nested,
                  file_size, i, written, fpos, pending, folder, renamed,
                  errors, finished_emitted, progress_last, folder_deleted,
                  queue, on_disk0, destroyed, io_failed, cur_bytes,
                  stop_phase, chunks_after_stop, opens_after_stop,
                  removes_after_stop, lock_checked, pass_chunks,
                  progress_events, skipped, faults, folder_faults,
                  selected_files, confirm_erase, current_standard,
                  button_enabled, auto_clear, is_closing, started, superseded,
                  p_method, p_passes, p_size, p_chunk, lock_pc, holders,
                  processes, proc, proc_nature, proc_alive, proc_signals,
                  returned, timed_out >>

\* line 375: if self._is_running
FinalCheck ==
  /\ pc = "final_check"
  /\ IF is_running THEN pc' = "emit_finished" /\ UNCHANGED observed
     ELSE pc' = "done" /\ observed' = TRUE
  /\ UNCHANGED << exists, moved, fsize, file_paths, method, is_running,
                  current_file_index, last_progress_update, total_size,
                  processed_size, idx, folders_to_delete, walk, cur, nested,
                  file_size, i, written, fpos, pending, folder, renamed,
                  errors, finished_emitted, progress_last, folder_deleted,
                  queue, on_disk0, destroyed, io_failed, cur_bytes,
                  stop_phase, chunks_after_stop, opens_after_stop,
                  removes_after_stop, lock_checked, pass_chunks,
                  progress_events, skipped, faults, folder_faults,
                  selected_files, confirm_erase, current_standard,
                  button_enabled, auto_clear, is_closing, started, superseded,
                  p_method, p_passes, p_size, p_chunk, lock_pc, holders,
                  processes, proc, proc_nature, proc_alive, proc_signals,
                  returned, timed_out >>

\* line 376: self.finished.emit()
EmitFinished ==
  /\ pc = "emit_finished"
  /\ finished_emitted' = TRUE
  /\ queue' = Append(queue, "finished")
  /\ pc' = "done"
  /\ UNCHANGED << exists, moved, fsize, file_paths, method, is_running,
                  current_file_index, last_progress_update, total_size,
                  processed_size, idx, folders_to_delete, walk, cur, nested,
                  file_size, i, written, fpos, pending, folder, renamed,
                  errors, progress_last, folder_deleted, on_disk0, destroyed,
                  io_failed, cur_bytes, stop_phase, observed,
                  chunks_after_stop, opens_after_stop, removes_after_stop,
                  lock_checked, pass_chunks, progress_events, skipped, faults,
                  folder_faults, selected_files, confirm_erase,
                  current_standard, button_enabled, auto_clear, is_closing,
                  started, superseded, p_method, p_passes, p_size, p_chunk,
                  lock_pc, holders, processes, proc, proc_nature, proc_alive,
                  proc_signals, returned, timed_out >>

Worker ==
  \/ RunStart \/ Sizing \/ LoopPoll \/ Validate \/ WalkNext \/ LockResolve
  \/ TryFile \/ PassPoll \/ OpenFile \/ ChunkPoll \/ WriteChunk \/ PassEnd
  \/ RemoveFile \/ FolderNext \/ Rmdir \/ Rename \/ Move \/ Rmtree
  \/ PlatformCmd \/ FinalCheck \/ EmitFinished

(***************************************************************************)
(* One batch: the state after EraseThread(file_paths, method) was           *)
(* constructed and started, with stop() callable while it runs.            *)
(***************************************************************************)
\* fields as __init__ leaves them, locals of run() and signals at their start
ThreadInit ==
  /\ is_running = TRUE
  /\ current_file_index = 0
  /\ last_progress_update = 0
  /\ total_size = 0
  /\ processed_size = 0
  /\ idx = 1
  /\ folders_to_delete = {}
  /\ walk = << >>
  /\ cur = "none"
  /\ nested = FALSE
  /\ file_size = 0
  /\ i = 0
  /\ written = 0
  /\ fpos = 0
  /\ pending = {}
  /\ folder = "none"
  /\ renamed = FALSE
  /\ errors = {}
  /\ finished_emitted = FALSE
  /\ progress_last = -1
  /\ folder_deleted = {}
  /\ destroyed = {}
  /\ io_failed = {}
  /\ cur_bytes = 0
  /\ stop_phase = "none"
  /\ observed = FALSE
  /\ chunks_after_stop = 0
  /\ opens_after_stop = 0
  /\ removes_after_stop = 0
  /\ lock_checked = {}
  /\ pass_chunks = << >>
  /\ progress_events = 0
  /\ skipped = {}

\* MainWindow.__init__: nothing selected, no confirmation pending, the
\* default standard, the start button disabled, no thread
UIInit ==
  /\ selected_files = << >>
  /\ confirm_erase = FALSE
  /\ current_standard = standards[2]
  /\ button_enabled = FALSE
  /\ is_closing = FALSE
  /\ queue = << >>
  /\ started = 0
  /\ superseded = 0

NoChunk == [kind |-> "none", byte |-> 0, len |-> 0]

PatIdle ==
  /\ p_method = "Single"
  /\ p_passes = << >>
  /\ p_size = 0
  /\ p_chunk = NoChunk

\* the processes that may hold the selected file open
Procs == { "p1", "p2", "p3" }
\* exited: gone before terminate_process is called; obedient: exits on
\* terminate(); stubborn: still running 3 s after terminate(); denied:
\* terminate() raises AccessDenied
Natures == { "exited", "obedient", "stubborn", "denied" }

LockIdle ==
  /\ lock_pc = "idle"
  /\ holders = << >>
  /\ processes = << >>
  /\ proc = "none"
  /\ proc_nature = [p \in Procs |-> "obedient"]
  /\ proc_alive = [p \in Procs |-> TRUE]
  /\ proc_signals = [p \in Procs |-> {}]
  /\ returned = [p \in Procs |-> "none"]
  /\ timed_out = {}

\* the entries on disk: f and d, and a tree under d
Disk(tree) == [p \in Paths |-> p \in { "f", "d" } \cup tree]

\* the 7-pass lists and the 139 passes of the Gutmann list are run on batches
\* of one selected file; the one-pass and the default standard on every request
Admitted(m, req) ==
  m \in { "Single", "DoD3" } \/ req \in { << >>, << "f" >> }

\* the lists handed to the constructor: the requests, and two lists naming a
\* path that is not on disk, which the filter of line 131 drops
Submitted == Requests \cup { << "d_s_b" >>, << "d_s_b", "f" >> }

Init ==
  /\ method \in Methods
  /\ moved = {}
  /\ \E req \in Submitted :
       /\ \E tree \in (IF "d" \in Range(req) THEN Trees ELSE { {} }) :
            exists = Disk(tree)
       /\ file_paths = SelectSeq(req, Resolves)
  /\ Admitted(method, file_paths)
  /\ fsize \in [Files -> FileSizes \cup NestedSizes]
  /\ fsize["f"] \in (IF "f" \in Range(file_paths) THEN FileSizes ELSE { 1 })
  /\ \A p \in Files \ { "f" } :
       fsize[p] \in (IF exists[p] THEN NestedSizes ELSE { 0 })
  /\ on_disk0 = { p \in Files : exists[p] }
  /\ pc = "start"
  /\ ThreadInit
  /\ faults = 0
  /\ folder_faults = 0
  /\ UIInit
  /\ auto_clear = TRUE
  /\ PatIdle
  /\ LockIdle

Next == Worker \/ stop

Spec == Init /\ [][Next]_vars

\* the batches of Init under the one-pass standard, with f of one chunk or of
\* two: the phases, the polls and the folder ladder do not depend on the
\* number of passes
InitLive == Init /\ method = "Single" /\ fsize["f"] \in { 1, CHUNK_SIZE + 1 }

\* run() executes on its own QThread: as long as it has not returned, the
\* scheduler keeps giving it the processor and each of its filesystem and
\* process calls returns, so the next step of the worker is eventually taken.
\* Nothing obliges the control thread to call stop().
SpecLive == InitLive /\ [][Next]_vars /\ WF_vars(Worker)

(***************************************************************************)
(* The pattern generator on its own: get_passes for a standard, then       *)
(* generate_pattern for one of its passes and a requested chunk size.      *)
(***************************************************************************)
\* chunk sizes requested by the write loop: 1, around the pattern length,
\* a short final chunk (70000 mod 65536) and the full chunk
ChunkSizes == { 1, 1023, 1024, 1025, 4464, CHUNK_SIZE }

PatInit ==
  /\ p_method \in Methods
  /\ p_size \in ChunkSizes
  /\ p_passes = << >>
  /\ p_chunk = NoChunk
  /\ method = p_method
  /\ file_paths = << >>
  /\ exists = Disk({})
  /\ moved = {}
  /\ fsize = [p \in Files |-> 0]
  /\ on_disk0 = {}
  /\ pc = "idle"
  /\ ThreadInit
  /\ faults = 0
  /\ folder_faults = 0
  /\ UIInit
  /\ auto_clear = TRUE
  /\ LockIdle

CallGetPasses ==
  /\ p_passes = << >>
  /\ p_passes' = get_passes(p_method)
  /\ UNCHANGED << exists, moved, fsize, file_paths, method, is_running,
                  current_file_index, last_progress_update, total_size,
                  processed_size, pc, idx, folders_to_delete, walk, cur,
                  nested, file_size, i, written, fpos, pending, folder,
                  renamed, errors, finished_emitted, progress_last,
                  folder_deleted, queue, on_disk0, destroyed, io_failed,
                  cur_bytes, stop_phase, observed, chunks_after_stop,
                  opens_after_stop, removes_after_stop, lock_checked,
                  pass_chunks, progress_events, skipped, faults,
                  folder_faults, selected_files, confirm_erase,
                  current_standard, button_enabled, auto_clear, is_closing,
                  started, superseded, p_method, p_size, p_chunk, lock_pc,
                  holders, processes, proc, proc_nature, proc_alive,
                  proc_signals, returned, timed_out >>

CallGeneratePattern ==
  /\ p_passes # << >>
  /\ \E k \in 1..Len(p_passes) :
       p_chunk' = generate_pattern(p_passes[k], p_size)
  /\ UNCHANGED << exists, moved, fsize, file_paths, method, is_running,
                  current_file_index, last_progress_update, total_size,
                  processed_size, pc, idx, folders_to_delete, walk, cur,
                  nested, file_size, i, written, fpos, pending, folder,
                  renamed, errors, finished_emitted, progress_last,
                  folder_deleted, queue, on_disk0, destroyed, io_failed,
                  cur_bytes, stop_phase, observed, chunks_after_stop,
                  opens_after_stop, removes_after_stop, lock_checked,
                  pass_chunks, progress_events, skipped, faults,
                  folder_faults, selected_files, confirm_erase,
                  current_standard, button_enabled, auto_clear, is_closing,
                  started, superseded, p_method, p_passes, p_size, lock_pc,
                  holders, processes, proc, proc_nature, proc_alive,
                  proc_signals, returned, timed_out >>

PatNext == CallGetPasses \/ CallGeneratePattern

SpecPattern == PatInit /\ [][PatNext]_vars

(***************************************************************************)
(* The control side: MainWindow's selection list, the two-click start, the *)
(* slots connected to the worker's signals, and closeEvent.  The window    *)
(* sees of a thread its construction, isRunning(), stop() and the signals  *)
(* it emits: here run() is followed through its signals only (its steps    *)
(* are the actions above); error and finished signals cross to the window  *)
(* through the queue, in emission order.                                   *)
(***************************************************************************)
\* the paths the user can pick or drop
TopPaths == { "f", "d" }
\* the lists one file dialog or drop can hand to add_files (d_s is not on disk)
Picks ==
  { << "f" >>, << "d" >>, << "f", "d" >>, << "d", "f" >>, << "d_s", "f" >> }
\* the entries of the standard menu the user picks from
MenuChoices == { standards[1], standards[2] }

\* is_valid_file_path(p): the entry exists (and is readable and writable)
is_valid_file_path(p) == Resolves(p)

\* (variant) the loop of add_files without the validity test
RECURSIVE AddAllNoValidation(_, _)
AddAllNoValidation(sel, files) ==
  IF files = << >> THEN sel
  ELSE LET p == Head(files) IN
       IF p \notin Range(sel)
       THEN AddAllNoValidation(Append(sel, p), Tail(files))
       ELSE AddAllNoValidation(sel, Tail(files))

\* the loop of add_files: valid paths not yet listed are appended in order
RECURSIVE AddAll(_, _)
AddAll(sel, files) ==
  IF files = << >> THEN sel
  ELSE LET p == Head(files) IN
       IF is_valid_file_path(p) /\ p \notin Range(sel)
       THEN AddAll(Append(sel, p), Tail(files))
       ELSE AddAll(sel, Tail(files))

\* lines 1021-1040
add_files ==
  /\ ~is_closing
  /\ \E files \in Picks :
       /\ selected_files' = AddAll(selected_files, files)
       /\ button_enabled' =
            IF selected_files' # selected_files THEN TRUE ELSE button_enabled
  /\ UNCHANGED << exists, moved, fsize, file_paths, method, is_running,
                  current_file_index, last_progress_update, total_size,
                  processed_size, pc, idx, folders_to_delete, walk, cur,
                  nested, file_size, i, written, fpos, pending, folder,
                  renamed, errors, finished_emitted, progress_last,
                  folder_deleted, queue, on_disk0, destroyed, io_failed,
                  cur_bytes, stop_phase, observed, chunks_after_stop,
                  opens_after_stop, removes_after_stop, lock_checked,
                  pass_chunks, progress_events, skipped, faults,
                  folder_faults, confirm_erase, current_standard, auto_clear,
                  is_closing, started, superseded, p_method, p_passes, p_size,
                  p_chunk, lock_pc, holders, processes, proc, proc_nature,
                  proc_alive, proc_signals, returned, timed_out >>

\* lines 1203-1211: the remove button of a listed entry
remove_file ==
  /\ ~is_closing
  /\ \E p \in Range(selected_files) :
       /\ selected_files' = SelectSeq(selected_files, LAMBDA q : q # p)
       /\ button_enabled' =
            IF selected_files' = << >> THEN FALSE ELSE button_enabled
  /\ UNCHANGED << exists, moved, fsize, file_paths, method, is_running,
                  current_file_index, last_progress_update, total_size,
                  processed_size, pc, idx, folders_to_delete, walk, cur,
                  nested, file_size, i, written, fpos, pending, folder,
                  renamed, errors, finished_emitted, progress_last,
                  folder_deleted, queue, on_disk0, destroyed, io_failed,
                  cur_bytes, stop_phase, observed, chunks_after_stop,
                  opens_after_stop, removes_after_stop, lock_checked,
                  pass_chunks, progress_events, skipped, faults,
                  folder_faults, confirm_erase, current_standard, auto_clear,
                  is_closing, started, superseded, p_method, p_passes, p_size,
                  p_chunk, lock_pc, holders, processes, proc, proc_nature,
                  proc_alive, proc_signals, returned, timed_out >>

\* lines 1213-1218
clear_file_list ==
  /\ ~is_closing
  /\ selected_files' = << >>
  /\ button_enabled' = FALSE
  /\ UNCHANGED << exists, moved, fsize, file_paths, method, is_running,
                  current_file_index, last_progress_update, total_size,
                  processed_size, pc, idx, folders_to_delete, walk, cur,
                  nested, file_size, i, written, fpos, pending, folder,
                  renamed, errors, finished_emitted, progress_last,
                  folder_deleted, queue, on_disk0, destroyed, io_failed,
                  cur_bytes, stop_phase, observed, chunks_after_stop,
                  opens_after_stop, removes_after_stop, lock_checked,
                  pass_chunks, progress_events, skipped, faults,
                  folder_faults, confirm_erase, current_standard, auto_clear,
                  is_closing, started, superseded, p_method, p_passes, p_size,
                  p_chunk, lock_pc, holders, processes, proc, proc_nature,
                  proc_alive, proc_signals, returned, timed_out >>

\* lines 1052-1062
show_standard_menu ==
  /\ ~is_closing
  /\ \E m \in MenuChoices : current_standard' = m
  /\ UNCHANGED << exists, moved, fsize, file_paths, method, is_running,
                  current_file_index, last_progress_update, total_size,
                  processed_size, pc, idx, folders_to_delete, walk, cur,
                  nested, file_size, i, written, fpos, pending, folder,
                  renamed, errors, finished_emitted, progress_last,
                  folder_deleted, queue, on_disk0, destroyed, io_failed,
                  cur_bytes, stop_phase, observed, chunks_after_stop,
                  opens_after_stop, removes_after_stop, lock_checked,
                  pass_chunks, progress_events, skipped, faults,
                  folder_faults, selected_files, confirm_erase,
                  button_enabled, auto_clear, is_closing, started, superseded,
                  p_method, p_passes, p_size, p_chunk, lock_pc, holders,
                  processes, proc, proc_nature, proc_alive, proc_signals,
                  returned, timed_out >>

\* EraseThread.__init__ (lines 129-142) and the start of run(): the fields,
\* locals and signals of a new thread
ThreadStart ==
  /\ is_running' = TRUE
  /\ current_file_index' = 0
  /\ last_progress_update' = 0
  /\ total_size' = 0
  /\ processed_size' = 0
  /\ idx' = 1
  /\ folders_to_delete' = {}
  /\ walk' = << >>
  /\ cur' = "none"
  /\ nested' = FALSE
  /\ file_size' = 0
  /\ i' = 0
  /\ written' = 0
  /\ fpos' = 0
  /\ pending' = {}
  /\ folder' = "none"
  /\ renamed' = FALSE
  /\ errors' = {}
  /\ finished_emitted' = FALSE
  /\ progress_last' = -1
  /\ folder_deleted' = {}
  /\ destroyed' = {}
  /\ io_failed' = {}
  /\ cur_bytes' = 0
  /\ stop_phase' = "none"
  /\ observed' = FALSE
  /\ chunks_after_stop' = 0
  /\ opens_after_stop' = 0
  /\ removes_after_stop' = 0
  /\ lock_checked' = {}
  /\ pass_chunks' = << >>
  /\ progress_events' = 0
  /\ skipped' = {}

\* lines 1116-1144: a click on the (enabled) start button.  The second click
\* constructs EraseThread(selected_files, current_standard), whose __init__
\* keeps the valid paths, and starts it; the previous thread object, if any,
\* is dropped.
start_erase ==
  /\ ~is_closing
  /\ button_enabled
  /\ selected_files # << >>
  /\ IF ~confirm_erase
     THEN /\ confirm_erase' = TRUE
          /\ UNCHANGED << button_enabled, started, superseded, file_paths, method, pc,
                          on_disk0, is_running, current_file_index,
                          last_progress_update, total_size, processed_size,
                          idx, folders_to_delete, walk, cur, nested,
                          file_size, i, written, fpos, pending, folder,
                          renamed, errors, finished_emitted, progress_last,
                          folder_deleted, destroyed, io_failed, cur_bytes,
                          stop_phase, observed, chunks_after_stop,
                          opens_after_stop, removes_after_stop,
                          lock_checked, pass_chunks, progress_events,
                          skipped >>
     ELSE /\ started < MaxStarts
          /\ started' = started + 1
          /\ confirm_erase' = FALSE
          /\ button_enabled' = FALSE
          /\ superseded' = IF Running THEN superseded + 1 ELSE superseded
          /\ file_paths' = SelectSeq(selected_files, is_valid_file_path)
          /\ method' = current_standard
          /\ on_disk0' = { p \in Files : exists[p] }
          /\ pc' = "start"
          /\ ThreadStart
  /\ UNCHANGED << exists, moved, fsize, queue, faults, folder_faults,
                  selected_files, current_standard, auto_clear, is_closing,
                  p_method, p_passes, p_size, p_chunk, lock_pc, holders,
                  processes, proc, proc_nature, proc_alive, proc_signals,
                  returned, timed_out >>

\* lines 1173-1177: slot of the error signal
show_error ==
  /\ queue # << >>
  /\ Head(queue) = "error"
  /\ queue' = Tail(queue)
  /\ button_enabled' = IF is_closing THEN button_enabled ELSE TRUE
  /\ UNCHANGED << exists, moved, fsize, file_paths, method, is_running,
                  current_file_index, last_progress_update, total_size,
                  processed_size, pc, idx, folders_to_delete, walk, cur,
                  nested, file_size, i, written, fpos, pending, folder,
                  renamed, errors, finished_emitted, progress_last,
                  folder_deleted, on_disk0, destroyed, io_failed, cur_bytes,
                  stop_phase, observed, chunks_after_stop, opens_after_stop,
                  removes_after_stop, lock_checked, pass_chunks,
                  progress_events, skipped, faults, folder_faults,
                  selected_files, confirm_erase, current_standard, auto_clear,
                  is_closing, started, superseded, p_method, p_passes, p_size,
                  p_chunk, lock_pc, holders, processes, proc, proc_nature,
                  proc_alive, proc_signals, returned, timed_out >>

\* lines 1160-1171: slot of the finished signal
erase_finished ==
  /\ queue # << >>
  /\ Head(queue) = "finished"
  /\ queue' = Tail(queue)
  /\ IF is_closing
     THEN UNCHANGED << selected_files, button_enabled >>
     ELSE IF auto_clear
     THEN selected_files' = << >> /\ button_enabled' = FALSE
     ELSE button_enabled' = TRUE /\ UNCHANGED selected_files
  /\ UNCHANGED << exists, moved, fsize, file_paths, method, is_running,
                  current_file_index, last_progress_update, total_size,
                  processed_size, pc, idx, folders_to_delete, walk, cur,
                  nested, file_size, i, written, fpos, pending, folder,
                  renamed, errors, finished_emitted, progress_last,
                  folder_deleted, on_disk0, destroyed, io_failed, cur_bytes,
                  stop_phase, observed, chunks_after_stop, opens_after_stop,
                  removes_after_stop, lock_checked, pass_chunks,
                  progress_events, skipped, faults, folder_faults,
                  confirm_erase, current_standard, auto_clear, is_closing,
                  started, superseded, p_method, p_passes, p_size, p_chunk,
                  lock_pc, holders, processes, proc, proc_nature, proc_alive,
                  proc_signals, returned, timed_out >>

\* lines 1237-1251: closing while the thread runs, answered Yes: the flag is
\* cleared through stop() and the window waits for the thread
closeEvent ==
  /\ ~is_closing
  /\ Running
  /\ is_closing' = TRUE
  /\ is_running' = FALSE
  /\ stop_phase' = IF is_running THEN Phase ELSE stop_phase
  /\ UNCHANGED << exists, moved, fsize, file_paths, method,
                  current_file_index, last_progress_update, total_size,
                  processed_size, pc, idx, folders_to_delete, walk, cur,
                  nested, file_size, i, written, fpos, pending, folder,
                  renamed, errors, finished_emitted, progress_last,
                  folder_deleted, queue, on_disk0, destroyed, io_failed,
                  cur_bytes, observed, chunks_after_stop, opens_after_stop,
                  removes_after_stop, lock_checked, pass_chunks,
                  progress_events, skipped, faults, folder_faults,
                  selected_files, confirm_erase, current_standard,
                  button_enabled, auto_clear, started, superseded, p_method,
                  p_passes, p_size, p_chunk, lock_pc, holders, processes,
                  proc, proc_nature, proc_alive, proc_signals, returned,
                  timed_out >>

\* run() reports a failure for one path and goes on (the error.emit of lines
\* 236, 239, 293, 296 and 370)
ThreadSignalsError ==
  /\ pc = "start"
  /\ file_paths # << >>
  /\ faults < MaxFaults
  /\ faults' = faults + 1
  /\ queue' = Append(queue, "error")
  /\ UNCHANGED << exists, moved, fsize, file_paths, method, is_running,
                  current_file_index, last_progress_update, total_size,
                  processed_size, pc, idx, folders_to_delete, walk, cur,
                  nested, file_size, i, written, fpos, pending, folder,
                  renamed, errors, finished_emitted, progress_last,
                  folder_deleted, on_disk0, destroyed, io_failed, cur_bytes,
                  stop_phase, observed, chunks_after_stop, opens_after_stop,
                  removes_after_stop, lock_checked, pass_chunks,
                  progress_events, skipped, folder_faults, selected_files,
                  confirm_erase, current_standard, button_enabled, auto_clear,
                  is_closing, started, superseded, p_method, p_passes, p_size,
                  p_chunk, lock_pc, holders, processes, proc, proc_nature,
                  proc_alive, proc_signals, returned, timed_out >>

\* run() returns: with an error when no path was valid (lines 157-159), with
\* finished() when the flag is still set at line 375, silently otherwise
ThreadReturns ==
  /\ pc = "start"
  /\ pc' = "done"
  /\ IF file_paths = << >>
     THEN queue' = Append(queue, "error") /\ UNCHANGED finished_emitted
     ELSE IF is_running
     THEN queue' = Append(queue, "finished") /\ finished_emitted' = TRUE
     ELSE UNCHANGED << queue, finished_emitted >>
  /\ UNCHANGED << exists, moved, fsize, file_paths, method, is_running,
                  current_file_index, last_progress_update, total_size,
                  processed_size, idx, folders_to_delete, walk, cur, nested,
                  file_size, i, written, fpos, pending, folder, renamed,
                  errors, progress_last, folder_deleted, on_disk0, destroyed,
                  io_failed, cur_bytes, stop_phase, observed,
                  chunks_after_stop, opens_after_stop, removes_after_stop,
                  lock_checked, pass_chunks, progress_events, skipped, faults,
                  folder_faults, selected_files, confirm_erase,
                  current_standard, button_enabled, auto_clear, is_closing,
                  started, superseded, p_method, p_passes, p_size, p_chunk,
                  lock_pc, holders, processes, proc, proc_nature, proc_alive,
                  proc_signals, returned, timed_out >>

UINext ==
  \/ add_files \/ remove_file \/ clear_file_list \/ show_standard_menu
  \/ start_erase \/ show_error \/ erase_finished \/ closeEvent
  \/ ThreadSignalsError \/ ThreadReturns

\* a session: the window just opened, f (1 byte) and the empty directory d on
\* disk
InitUI ==
  /\ exists = Disk({})
  /\ moved = {}
  /\ fsize = [p \in Files |-> IF p = "f" THEN 1 ELSE 0]
  /\ on_disk0 = {}
  /\ file_paths = << >>
  /\ method = standards[2]
  /\ pc = "idle"
  /\ ThreadInit
  /\ faults = 0
  /\ folder_faults = 0
  /\ UIInit
  /\ auto_clear \in BOOLEAN
  /\ PatIdle
  /\ LockIdle

SpecUI == InitUI /\ [][UINext]_vars

(***************************************************************************)
(* Lock resolution of one selected file: lines 253-264 of run() with       *)
(* is_file_in_use, get_processes_using_file and terminate_process, one     *)
(* step per call.  process.wait(timeout=3) is psutil's: it returns when    *)
(* the process is gone and raises TimeoutExpired when it is still alive    *)
(* after the timeout.                                                      *)
(***************************************************************************)
\* the lists get_processes_using_file may return
HolderLists ==
  { << >>, << "p1" >>, << "p1", "p2" >>, << "p2", "p1" >>,
    << "p1", "p2", "p3" >> }

\* terminate_process returns: its value is recorded for the process
Return(value) == returned' = [returned EXCEPT ![proc] = value]

\* line 254 and is_file_in_use (lines 67-77): open(file_path, 'a') fails or not
LockInUse ==
  /\ lock_pc = "in_use"
  /\ \E in_use \in BOOLEAN :
       lock_pc' = IF in_use THEN "get" ELSE "done"
  /\ UNCHANGED << exists, moved, fsize, file_paths, method, is_running,
                  current_file_index, last_progress_update, total_size,
                  processed_size, pc, idx, folders_to_delete, walk, cur,
                  nested, file_size, i, written, fpos, pending, folder,
                  renamed, errors, finished_emitted, progress_last,
                  folder_deleted, queue, on_disk0, destroyed, io_failed,
                  cur_bytes, stop_phase, observed, chunks_after_stop,
                  opens_after_stop, removes_after_stop, lock_checked,
                  pass_chunks, progress_events, skipped, faults,
                  folder_faults, selected_files, confirm_erase,
                  current_standard, button_enabled, auto_clear, is_closing,
                  started, superseded, p_method, p_passes, p_size, p_chunk,
                  holders, processes, proc, proc_nature, proc_alive,
                  proc_signals, returned, timed_out >>

\* lines 256-257 and 263-264: the holders found by get_processes_using_file
LockGet ==
  /\ lock_pc = "get"
  /\ processes' = holders
  /\ lock_pc' = IF holders = << >> THEN "done" ELSE "next"
  /\ UNCHANGED << exists, moved, fsize, file_paths, method, is_running,
                  current_file_index, last_progress_update, total_size,
                  processed_size, pc, idx, folders_to_delete, walk, cur,
                  nested, file_size, i, written, fpos, pending, folder,
                  renamed, errors, finished_emitted, progress_last,
                  folder_deleted, queue, on_disk0, destroyed, io_failed,
                  cur_bytes, stop_phase, observed, chunks_after_stop,
                  opens_after_stop, removes_after_stop, lock_checked,
                  pass_chunks, progress_events, skipped, faults,
                  folder_faults, selected_files, confirm_erase,
                  current_standard, button_enabled, auto_clear, is_closing,
                  started, superseded, p_method, p_passes, p_size, p_chunk,
                  holders, proc, proc_nature, proc_alive, proc_signals,
                  returned, timed_out >>

\* line 258: for proc in processes, and the call of line 259
LockNext ==
  /\ lock_pc = "next"
  /\ IF processes = << >>
     THEN lock_pc' = "done" /\ UNCHANGED << processes, proc >>
     ELSE /\ proc' = Head(processes)
          /\ processes' = Tail(processes)
          /\ lock_pc' = "is_running"
  /\ UNCHANGED << exists, moved, fsize, file_paths, method, is_running,
                  current_file_index, last_progress_update, total_size,
                  processed_size, pc, idx, folders_to_delete, walk, cur,
                  nested, file_size, i, written, fpos, pending, folder,
                  renamed, errors, finished_emitted, progress_last,
                  folder_deleted, queue, on_disk0, destroyed, io_failed,
                  cur_bytes, stop_phase, observed, chunks_after_stop,
                  opens_after_stop, removes_after_stop, lock_checked,
                  pass_chunks, progress_events, skipped, faults,
                  folder_faults, selected_files, confirm_erase,
                  current_standard, button_enabled, auto_clear, is_closing,
                  started, superseded, p_method, p_passes, p_size, p_chunk,
                  holders, proc_nature, proc_alive, proc_signals, returned,
                  timed_out >>

\* line 98: if process.is_running(); otherwise line 106 returns False
TermIsRunning ==
  /\ lock_pc = "is_running"
  /\ IF proc_alive[proc]
     THEN lock_pc' = "terminate" /\ UNCHANGED returned
     ELSE lock_pc' = "log" /\ Return("False")
  /\ UNCHANGED << exists, moved, fsize, file_paths, method, is_running,
                  current_file_index, last_progress_update, total_size,
                  processed_size, pc, idx, folders_to_delete, walk, cur,
                  nested, file_size, i, written, fpos, pending, folder,
                  renamed, errors, finished_emitted, progress_last,
                  folder_deleted, queue, on_disk0, destroyed, io_failed,
                  cur_bytes, stop_phase, observed, chunks_after_stop,
                  opens_after_stop, removes_after_stop, lock_checked,
                  pass_chunks, progress_events, skipped, faults,
                  folder_faults, selected_files, confirm_erase,
                  current_standard, button_enabled, auto_clear, is_closing,
                  started, superseded, p_method, p_passes, p_size, p_chunk,
                  holders, processes, proc, proc_nature, proc_alive,
                  proc_signals, timed_out >>

\* line 99: process.terminate(); an exception is logged (lines 104-105) and
\* line 106 returns False
TermTerminate ==
  /\ lock_pc = "terminate"
  /\ IF proc_nature[proc] = "denied"
     THEN /\ lock_pc' = "log"
          /\ Return("False")
          /\ UNCHANGED proc_signals
     ELSE /\ proc_signals' =
               [proc_signals EXCEPT ![proc] = @ \cup { "terminate" }]
          /\ lock_pc' = "wait"
          /\ UNCHANGED returned
  /\ UNCHANGED << exists, moved, fsize, file_paths, method, is_running,
                  current_file_index, last_progress_update, total_size,
                  processed_size, pc, idx, folders_to_delete, walk, cur,
                  nested, file_size, i, written, fpos, pending, folder,
                  renamed, errors, finished_emitted, progress_last,
                  folder_deleted, queue, on_disk0, destroyed, io_failed,
                  cur_bytes, stop_phase, observed, chunks_after_stop,
                  opens_after_stop, removes_after_stop, lock_checked,
                  pass_chunks, progress_events, skipped, faults,
                  folder_faults, selected_files, confirm_erase,
                  current_standard, button_enabled, auto_clear, is_closing,
                  started, superseded, p_method, p_passes, p_size, p_chunk,
                  holders, processes, proc, proc_nature, proc_alive, timed_out
                  >>

\* line 100: process.wait(timeout=3); TimeoutExpired goes to lines 104-106
TermWait ==
  /\ lock_pc = "wait"
  /\ IF proc_nature[proc] = "stubborn"
     THEN /\ timed_out' = timed_out \cup { proc }
          /\ lock_pc' = "log"
          /\ Return("False")
          /\ UNCHANGED proc_alive
     ELSE /\ proc_alive' = [proc_alive EXCEPT ![proc] = FALSE]
          /\ lock_pc' = "recheck"
          /\ UNCHANGED << timed_out, returned >>
  /\ UNCHANGED << exists, moved, fsize, file_paths, method, is_running,
                  current_file_index, last_progress_update, total_size,
                  processed_size, pc, idx, folders_to_delete, walk, cur,
                  nested, file_size, i, written, fpos, pending, folder,
                  renamed, errors, finished_emitted, progress_last,
                  folder_deleted, queue, on_disk0, destroyed, io_failed,
                  cur_bytes, stop_phase, observed, chunks_after_stop,
                  opens_after_stop, removes_after_stop, lock_checked,
                  pass_chunks, progress_events, skipped, faults,
                  folder_faults, selected_files, confirm_erase,
                  current_standard, button_enabled, auto_clear, is_closing,
                  started, superseded, p_method, p_passes, p_size, p_chunk,
                  holders, processes, proc, proc_nature, proc_signals >>

\* lines 101-103: kill() if still running, then return True (line 260 logs)
TermRecheck ==
  /\ lock_pc = "recheck"
  /\ IF proc_alive[proc]
     THEN /\ proc_signals' = [proc_signals EXCEPT ![proc] = @ \cup { "kill" }]
          /\ proc_alive' = [proc_alive EXCEPT ![proc] = FALSE]
     ELSE UNCHANGED << proc_signals, proc_alive >>
  /\ Return("True")
  /\ lock_pc' = "next"
  /\ UNCHANGED << exists, moved, fsize, file_paths, method, is_running,
                  current_file_index, last_progress_update, total_size,
                  processed_size, pc, idx, folders_to_delete, walk, cur,
                  nested, file_size, i, written, fpos, pending, folder,
                  renamed, errors, finished_emitted, progress_last,
                  folder_deleted, queue, on_disk0, destroyed, io_failed,
                  cur_bytes, stop_phase, observed, chunks_after_stop,
                  opens_after_stop, removes_after_stop, lock_checked,
                  pass_chunks, progress_events, skipped, faults,
                  folder_faults, selected_files, confirm_erase,
                  current_standard, button_enabled, auto_clear, is_closing,
                  started, superseded, p_method, p_passes, p_size, p_chunk,
                  holders, processes, proc, proc_nature, timed_out >>

\* lines 261-262: the warning calls proc.name(), which raises NoSuchProcess
\* for a process that is gone; only the handler of lines 377-380 catches it
LockLog ==
  /\ lock_pc = "log"
  /\ \E raises \in BOOLEAN :
       /\ raises => ~proc_alive[proc]
       /\ lock_pc' = IF raises THEN "raised" ELSE "next"
  /\ UNCHANGED << exists, moved, fsize, file_paths, method, is_running,
                  current_file_index, last_progress_update, total_size,
                  processed_size, pc, idx, folders_to_delete, walk, cur,
                  nested, file_size, i, written, fpos, pending, folder,
                  renamed, errors, finished_emitted, progress_last,
                  folder_deleted, queue, on_disk0, destroyed, io_failed,
                  cur_bytes, stop_phase, observed, chunks_after_stop,
                  opens_after_stop, removes_after_stop, lock_checked,
                  pass_chunks, progress_events, skipped, faults,
                  folder_faults, selected_files, confirm_erase,
                  current_standard, button_enabled, auto_clear, is_closing,
                  started, superseded, p_method, p_passes, p_size, p_chunk,
                  holders, processes, proc, proc_nature, proc_alive,
                  proc_signals, returned, timed_out >>

LockStep ==
  \/ LockInUse \/ LockGet \/ LockNext \/ TermIsRunning \/ TermTerminate
  \/ TermWait \/ TermRecheck \/ LockLog

LockInit ==
  /\ lock_pc = "in_use"
  /\ holders \in HolderLists
  /\ processes = << >>
  /\ proc = "none"
  /\ proc_nature \in [Procs -> Natures]
  /\ proc_alive = [p \in Procs |-> proc_nature[p] # "exited"]
  /\ proc_signals = [p \in Procs |-> {}]
  /\ returned = [p \in Procs |-> "none"]
  /\ timed_out = {}
  /\ exists = Disk({})
  /\ moved = {}
  /\ fsize = [p \in Files |-> IF p = "f" THEN 1 ELSE 0]
  /\ on_disk0 = { "f" }
  /\ file_paths = << "f" >>
  /\ method = standards[2]
  /\ pc = "idle"
  /\ ThreadInit
  /\ faults = 0
  /\ folder_faults = 0
  /\ UIInit
  /\ auto_clear = TRUE
  /\ PatIdle

SpecLock == LockInit /\ [][LockStep]_vars

(***************************************************************************)
(* Properties.                                                             *)
(***************************************************************************)

\* C1: a file of size S destroyed without error by a standard of P passes
\* has received exactly P x S bytes (S in every pass) and is gone from disk.
C1_DestroyWritesPxS ==
  cur \in destroyed =>
    /\ cur_bytes = Len(passes) * file_size
    /\ ~exists[cur]

\* the ladder is at work on a recorded folder
RemovalBegun == pc \in { "rmdir", "rename", "move", "rmtree", "cmd" }

\* C2: when the removal of a recorded folder begins, every file that was
\* beneath it has been overwritten with all passes and deleted, also when a
\* nested file was skipped or its overwrite or delete failed.
C2_FilesDestroyedBeforeFolder ==
  RemovalBegun =>
    \A p \in on_disk0 : Beneath(p, folder) => p \in destroyed

\* C3: materializing a pass pattern for a chunk of N bytes returns exactly
\* N bytes, for every N from 1 to the 64 KiB chunk size.
C3_ChunkHasRequestedLength ==
  p_chunk # NoChunk => p_chunk.len = p_size

\* what the window learns of a pass: its kind, and its fill byte when fixed
Shape(pattern) ==
  [kind |-> pattern.kind,
   byte |-> IF pattern.kind = "random" THEN 0 ELSE pattern.byte]
F(b) == [kind |-> "fixed", byte |-> b]
R == [kind |-> "random", byte |-> 0]
\* 4 x zero, 0x55, 0xAA, 4 x random, 0x92 0x49 0x24 0x00 0x11 .. 0xBB,
\* 6 x random, 4 x zero
Gutmann35 ==
  Rep(4, F(0)) \o << F(85), F(170) >> \o Rep(4, R)
    \o << F(146), F(73), F(36), F(0), F(17), F(34), F(51), F(68), F(85),
          F(102), F(119), F(136), F(153), F(170), F(187) >>
    \o Rep(6, R) \o Rep(4, F(0))

\* C4: the Gutmann standard yields exactly 35 passes, in the documented order.
C4_GutmannIs35Passes ==
  (p_method = "Gutmann" /\ p_passes # << >>) =>
    [k \in 1..Len(p_passes) |-> Shape(p_passes[k])] = Gutmann35

NoFatal == \A e \in errors : e.kind # "fatal"

\* C5: a failed open, write or delete of one file yields an error event for
\* that path, the worker goes through every remaining path and every
\* recorded folder, and the batch ends with finished() unless it was
\* cancelled.
C5_FileFailureDoesNotAbort ==
  /\ \A p \in io_failed :
       \E e \in errors : e.path = p /\ e.kind \in { "process", "delete" }
  /\ (pc = "done" /\ stop_phase = "none" /\ NoFatal /\ file_paths # << >>)
       => /\ finished_emitted
          /\ idx > Len(file_paths)
          /\ pending = {}

\* a first path failed, the batch went on to destroy a later file and finished
C5_Witness ==
  /\ pc = "done"
  /\ finished_emitted
  /\ io_failed # {}
  /\ \E p \in destroyed : p \notin io_failed

\* C6 (as claimed): finished() is never emitted once the cancellation flag
\* has been cleared, in every interleaving of stop() with the worker.
C6_NoFinishedAfterStop == finished_emitted => is_running

\* C6 (amended): finished() is emitted only if the flag was still set when
\* the worker tested it after the folder loop (line 375): a stop() before
\* that test suppresses finished().
C6_FinishedOnlyIfFinalTestPassed ==
  finished_emitted => stop_phase \in { "none", "checked" }

\* stop() arrived during the folder loop of a batch whose work all succeeded,
\* and the batch ended without finished()
C6_Witness ==
  /\ pc = "done"
  /\ stop_phase = "folders"
  /\ errors = {}
  /\ destroyed # {}
  /\ ~finished_emitted

\* C7: every execution in which the worker saw the cancellation reports it
\* to the control side with a cancellation notification.
C7_CancellationIsReported ==
  observed => [kind |-> "cancelled", path |-> "none"] \in errors

\* C8: after the flag is cleared the worker writes at most one more chunk
\* and opens at most one more file, and once it has seen the flag it has
\* returned (the file it was on stays as it is).
C8_StopHaltsWrites ==
  /\ chunks_after_stop <= 1
  /\ opens_after_stop <= 1
  /\ observed => pc = "done"

\* cancelled in the middle of a file: one chunk went out after stop(), the
\* worker returned, the file is still on disk
C8_Witness ==
  /\ observed
  /\ chunks_after_stop = 1
  /\ cur \in Files
  /\ exists[cur]
  /\ cur \notin destroyed

\* C9: no EraseThread is started while a previous one is still running.
C9_OneWorkerAtATime == superseded = 0

\* C10: the processed-byte counter never exceeds the total computed at
\* sizing, and every progress value emitted lies in 0..100.
C10_ProcessedWithinTotal ==
  /\ processed_size <= total_size
  /\ progress_last \in -1..100

\* C11: within one batch the progress values emitted never decrease, across
\* chunks, passes and files.
C11_ProgressNeverDecreases == [][progress_last' >= progress_last]_vars

\* progress was reported over two files and several passes of a finished batch
C11_Witness ==
  /\ finished_emitted
  /\ Cardinality(destroyed) >= 2
  /\ Len(passes) > 1
  /\ progress_last > 0

\* C12: in a batch of non-zero total that ends with finished(), without
\* cancellation, without any failure and without any error event, the last
\* progress value emitted is exactly 100.
C12_LastProgressIs100 ==
  (/\ finished_emitted /\ errors = {} /\ stop_phase = "none"
   /\ faults = 0 /\ folder_faults = 0 /\ total_size > 0)
    => progress_last = 100

\* the sizing loop has run
SizingDone == pc \notin { "start", "sizing" }

\* C13: when the total computed at sizing is zero the batch emits no
\* finished() and performs no destructive action: no file is deleted or
\* opened for writing, no directory is removed or renamed.
C13_ZeroTotalIsTerminal ==
  (SizingDone /\ file_paths # << >> /\ total_size = 0) =>
    /\ ~finished_emitted
    /\ pc \notin { "chunk_poll", "write", "pass_end", "remove" }
    /\ destroyed = {}
    /\ \A p \in Dirs : p \in Range(file_paths) => Resolves(p)

\* C14: a batch constructed with no valid path emits the batch-fatal error
\* event and ends: no finished(), nothing on disk is touched.
C14_NoValidPathsIsFatal ==
  file_paths = << >> =>
    /\ pc \in { "start", "done" }
    /\ ~finished_emitted
    /\ exists = Disk({}) /\ moved = {} /\ destroyed = {}
    /\ pc = "done" => errors = { [kind |-> "novalid", path |-> "none"] }

\* run() has returned from the empty-list test with its error event
C14_Witness ==
  /\ file_paths = << >>
  /\ pc = "done"
  /\ [kind |-> "novalid", path |-> "none"] \in errors
  /\ ~finished_emitted

\* the step leaves the ladder of the current folder
LadderEnds == RemovalBegun /\ pc' = "folders"

\* C15: the ladder of a recorded folder ends in exactly one of two outcomes:
\* the folder is gone and a folder-completed event was emitted for it, or it
\* still exists and a per-path error event was emitted for it.
C15_LadderOutcome ==
  [][LadderEnds =>
       LET completed == \E ev \in folder_deleted' : ev.dir = folder
           failed == \E e \in errors' : e.path = folder
       IN \/ ~exists'[folder] /\ completed /\ ~failed
          \/ exists'[folder] /\ failed /\ ~completed]_vars

\* every file that was beneath q when the batch was built has been destroyed
AllDestroyed(q) == \A p \in on_disk0 : Beneath(p, q) => p \in destroyed

\* C16: a selected directory all of whose files were destroyed is removed by
\* the plain os.rmdir (never renamed, never force-removed), with its
\* folder-completed event, whatever the order of the pending set (no removal
\* step is made to fail by the environment).
C16_EmptiedDirUsesRmdir ==
  (folder_faults = 0 /\ AllDestroyed("d")) =>
    /\ "d" \notin moved
    /\ ~exists["d"] => [dir |-> "d", name |-> "orig"] \in folder_deleted

\* C17: when the first overwrite pass opens a file, top-level or nested, lock
\* detection and holder termination have been performed on that file.
C17_LockResolvedBeforeOverwrite ==
  (pc = "open" /\ i = 0) => cur \in lock_checked

\* C18: terminate_process returns True exactly when the process is stopped
\* (one that had already exited included), and a process still running after
\* the 3 s wait has been sent a kill.
C18_TerminateConfirmsStop ==
  \A p \in Procs :
    returned[p] # "none" =>
      /\ returned[p] = "True" <=> ~proc_alive[p]
      /\ p \in timed_out => "kill" \in proc_signals[p]

\* the kinds and fill bytes of a pass list
Shapes(list) == [k \in 1..Len(list) |-> Shape(list[k])]

\* C19: the DoD 7-pass ECE and the VSITR standard both yield zero, 0xFF,
\* random, zero, 0xFF, random, zero; the single-pass standard yields one
\* all-zero pass.
C19_SevenPassListsAgree ==
  p_passes # << >> =>
    /\ p_method \in { "DoD7ECE", "VSITR" } =>
         Shapes(p_passes) = << F(0), F(255), R, F(0), F(255), R, F(0) >>
    /\ p_method = "Single" => Shapes(p_passes) = << F(0) >>

\* the VSITR list has been built
C19_Witness ==
  /\ p_method = "VSITR"
  /\ Len(p_passes) = 7

\* C20: the standard labelled DoD 3-pass yields 7 passes: all-zero then
\* all-one (0xFF) three times, then one random pass.
C20_DoD3UsesAllOnes ==
  (p_method = "DoD3" /\ p_passes # << >>) =>
    Shapes(p_passes) =
      << F(0), F(255), F(0), F(255), F(0), F(255), R >>

\* C21: in a random pass every chunk written comes from a fresh draw: no two
\* chunks of the same pass of a file carry the bytes of the same draw.
C21_FreshDrawPerChunk ==
  \A a, b \in 1..Len(pass_chunks) :
    (a < b /\ pass_chunks[a].kind = "random")
      => pass_chunks[a].byte # pass_chunks[b].byte

\* the batch of one 2048-byte file with the single-pass standard has ended,
\* without failure or cancellation
Scenario2048 ==
  /\ file_paths = << "f" >>
  /\ method = "Single"
  /\ file_size = 2048
  /\ faults = 0
  /\ stop_phase = "none"
  /\ pc = "done"

\* C22: that batch makes exactly one write of 2048 all-zero bytes, deletes
\* the file and emits finished(), with exactly one progress event, of value
\* 100.
C22_OneWriteOneProgress ==
  Scenario2048 =>
    /\ pass_chunks = << [kind |-> "fixed", byte |-> 0, len |-> 2048] >>
    /\ destroyed = { "f" }
    /\ finished_emitted
    /\ progress_events = 1
    /\ progress_last = 100

\* the folder loop is over for a batch of the one directory d, which held no
\* file and no subdirectory, and the environment made no step fail
EmptyDirBatchDone ==
  /\ file_paths = << "d" >>
  /\ \A p \in on_disk0 : ~Beneath(p, "d")
  /\ folders_to_delete = { "d" }
  /\ faults = 0 /\ folder_faults = 0
  /\ pc \in { "final_check", "emit_finished", "done" }

\* C23: a batch of one empty directory removes it by the plain os.rmdir,
\* emits folder_deleted for it and emits no error event.
C23_EmptyDirRemovedByRmdir ==
  EmptyDirBatchDone =>
    /\ ~exists["d"]
    /\ moved = {}
    /\ folder_deleted = { [dir |-> "d", name |-> "orig"] }
    /\ errors = {}

\* the batch of the empty directory has ended with finished()
C23_Witness ==
  /\ EmptyDirBatchDone
  /\ pc = "done"
  /\ finished_emitted
  /\ [dir |-> "d", name |-> "orig"] \in folder_deleted

\* C24: after every pass the size of the file on disk equals its original
\* size S.
C24_SizeKeptAcrossPasses ==
  pc = "pass_end" => fsize[cur] = file_size

\* the batch has ended with finished() and the environment made no step fail
CleanBatchDone ==
  /\ pc = "done"
  /\ finished_emitted
  /\ faults = 0 /\ folder_faults = 0

\* C25: the outcome of the folder loop does not depend on the order in which
\* the set is iterated.  Iterating children before parents removes every
\* recorded folder by os.rmdir and emits folder_deleted for each under its
\* own name, so every order has to end with that same set of events.
C25_FolderOrderIrrelevant ==
  CleanBatchDone =>
    folder_deleted = { [dir |-> q, name |-> "orig"] : q \in folders_to_delete }

\* position of run() in the order of its phases: not started, sizing,
\* destroying files, removing folders, returned
PhaseRank(p) ==
  CASE p \in { "idle", "start" } -> 0
    [] p = "sizing" -> 1
    [] p \in { "folders", "rmdir", "rename", "move", "rmtree", "cmd",
               "final_check", "emit_finished" } -> 3
    [] p = "done" -> 4
    [] OTHER -> 2

\* C26: the worker goes through its phases in order only; the total is
\* fixed before the first write and never changes afterwards, the overwrite
\* step writes or deletes nothing once the folder loop has started, folders
\* are recorded only while files are destroyed, and run() once returned
\* stays returned.
C26_PhasesInOrder ==
  [][/\ PhaseRank(pc') >= PhaseRank(pc)
     /\ SizingDone => total_size' = total_size
     /\ pass_chunks' # pass_chunks => SizingDone
     /\ PhaseRank(pc) >= 3 =>
          /\ fsize' = fsize
          /\ cur_bytes' = cur_bytes
          /\ destroyed' = destroyed
          /\ pass_chunks' = pass_chunks
     /\ folders_to_delete' # folders_to_delete => PhaseRank(pc) = 2
     /\ pc = "done" => pc' = "done"]_vars

\* a batch went through all phases: a file was destroyed, a folder removed
C26_Witness ==
  /\ pc = "done"
  /\ finished_emitted
  /\ total_size > 0
  /\ destroyed # {}
  /\ folder_deleted # {}

\* C27: a path that fails the validity test when the worker reaches it
\* (top-level or nested) is passed over: nothing writes to it or deletes it,
\* no error event names it, and the worker goes on with the next path up to
\* the end of the batch.
C27_InvalidPathIsSkipped ==
  /\ \A p \in skipped :
       /\ cur # p
       /\ p \notin destroyed \cup io_failed \cup lock_checked
       /\ exists[p]
       /\ \A e \in errors : e.path # p
  /\ (skipped # {} /\ pc = "done" /\ stop_phase = "none" /\ NoFatal)
       => /\ finished_emitted
          /\ idx > Len(file_paths)

\* C28: whatever the outcome of lock resolution for a file, the batch is not
\* aborted: no batch-level error is raised, and a batch that was not
\* cancelled goes through every path and ends with finished().
C28_LockOutcomeNeverAborts ==
  lock_checked # {} =>
    /\ NoFatal
    /\ (pc = "done" /\ stop_phase = "none")
         => (finished_emitted /\ idx > Len(file_paths))

NoDup(s) == \A a, b \in 1..Len(s) : a # b => s[a] # s[b]
Pos(s, x) == CHOOSE k \in 1..Len(s) : s[k] = x
\* the paths s and t have in common come in the same order in both
KeepsOrder(s, t) ==
  \A x, y \in Range(s) \cap Range(t) :
    Pos(s, x) < Pos(s, y) => Pos(t, x) < Pos(t, y)
\* the paths of t that s does not have come after those it has
AppendsNew(s, t) ==
  \A x \in Range(s) \cap Range(t), y \in Range(t) \ Range(s) :
    Pos(t, x) < Pos(t, y)

\* C29: after any add, remove and clear the selection has no duplicate path,
\* every path entering it has passed validation, paths keep the order in
\* which they were added, and the list handed to EraseThread is such a list.
C29_SelectionIsOrderedSet ==
  [][/\ NoDup(selected_files')
     /\ \A p \in Range(selected_files') \ Range(selected_files) :
          is_valid_file_path(p)
     /\ KeepsOrder(selected_files, selected_files')
     /\ AppendsNew(selected_files, selected_files')
     /\ started' # started =>
          /\ NoDup(file_paths')
          /\ Range(file_paths') \subseteq Range(selected_files)
          /\ KeepsOrder(selected_files, file_paths')]_vars

\* d then f were added and handed to a thread in that order
C29_Witness ==
  /\ selected_files = << "d", "f" >>
  /\ file_paths = << "d", "f" >>
  /\ started > 0

\* C30: every file gone from the disk was removed by the overwrite step after
\* the last pass of the standard; no file is unlinked without having been
\* overwritten, the forced removals of the folder loop included.
C30_NoRemovalWithoutOverwrite ==
  \A p \in on_disk0 : ~exists[p] => p \in destroyed


\* C31: a batch that ends with finished() and emitted no error event has left
\* none of the paths it was given on the disk.
C31_SilentFinishMeansGone ==
  (pc = "done" /\ finished_emitted /\ errors = {}) =>
    \A p \in Range(file_paths) : ~exists[p]

\* C32: every folder-completed event carries the path the folder was recorded
\* under, whichever removal strategy succeeded.
C32_EventCarriesRecordedPath ==
  \A ev \in folder_deleted :
    ev.name = "orig" /\ ev.dir \in folders_to_delete

\* C33: when stop() was called while the worker was in the file-destruction
\* phase, the folder loop takes no removal step and no recorded folder is
\* renamed, moved or deleted.
C33_StopInFilesSkipsFolders ==
  stop_phase = "files" =>
    /\ ~RemovalBegun
    /\ moved = {}
    /\ folder_deleted = {}
    /\ \A q \in folders_to_delete : exists[q]

\* C34: while the confirmation of a first click is pending, every step that
\* changes the selection or the standard cancels it, so that the second click
\* starts a batch with the selection and the standard the warning was shown
\* for.
C34_ChangeCancelsConfirmation ==
  [][ (confirm_erase /\ (selected_files' # selected_files
                         \/ current_standard' # current_standard))
        => ~confirm_erase' ]_vars

\* C35: once stop() has cleared the flag of a running worker, run() eventually
\* returns, whichever phase the worker was in, so the wait of the closing
\* control thread returns.
C35_StoppedWorkerTerminates == ~is_running ~> pc = "done"

\* stop() reached the worker inside the folder loop and run() has returned
C35_Witness ==
  /\ pc = "done"
  /\ ~is_running
  /\ stop_phase = "folders"
  /\ ~finished_emitted
====
